---- MODULE Spec2Model ----
(***************************************************************************)
(* A model of http-lite (github.com/Johanx22x/http-lite, package pkg/http): *)
(* the response emitter (Response), the header store (Header) and the       *)
(* route-trie multiplexer (ServeMux).                                       *)
(*                                                                          *)
(* Byte strings that are only concatenated (the bytes on the connection,    *)
(* header names and values) are TLA+ strings.  Strings the code splits or   *)
(* inspects (URL paths, route patterns, path segments) are sequences of     *)
(* one-character strings, so that strings.Split, HasPrefix and TrimPrefix   *)
(* are computed, not assumed.                                               *)
(***************************************************************************)
EXTENDS Integers, Sequences, FiniteSets, TLC

\* ------------------------------------------------------------------ bounds
\* Longest sequence of calls made on one Response.
MaxOps == 4
\* Most routes registered on one mux (AddRoute and Handle calls together).
MaxRoutes == 2
\* Most middlewares registered on one mux with Use.
MaxMiddleware == 2
\* connections the acceptor accepts
MaxConns == 1
\* Calls made on one ResponseWriter when header and cookie calls are mixed
\* with sends.
MaxWireCalls == 3
\* Header lines of a request given to the parser.
MaxHeaderLines == 2

\* ------------------------------------------------------------ small helpers
\* All orders in which a Go `range` over a map with key set S may visit it.
Orders(S) ==
  {s \in [1..Cardinality(S) -> S] : \A x \in S : \E i \in 1..Cardinality(S) : s[i] = x}

Digit == <<"0", "1", "2", "3", "4", "5", "6", "7", "8", "9">>

\* fmt's %d / strconv.Itoa for a non-negative integer.
RECURSIVE Itoa(_)
Itoa(n) ==
  IF n < 10 THEN Digit[n + 1] ELSE Itoa(n \div 10) \o Digit[(n % 10) + 1]

\* StatusText: the reason-phrase table (status.go); unknown codes give "".
StatusText(code) ==
  CASE code = 200 -> "OK"
    [] code = 201 -> "Created"
    [] code = 204 -> "No Content"
    [] code = 400 -> "Bad Request"
    [] code = 401 -> "Unauthorized"
    [] code = 403 -> "Forbidden"
    [] code = 404 -> "Not Found"
    [] code = 405 -> "Method Not Allowed"
    [] code = 500 -> "Internal Server Error"
    [] code = 503 -> "Service Unavailable"
    [] OTHER -> ""

StatusOK == 200
StatusNotFound == 404

\* ------------------------------------------------------------- Header store
\* type Header map[string][]string: a function from the keys present to
\* their value sequences.
EmptyHeader == [k \in {} |-> <<>>]

\* h[key] = values (a direct assignment through the map).
HeaderAssign(h, key, values) ==
  [k \in (DOMAIN h) \cup {key} |-> IF k = key THEN values ELSE h[k]]

\* func (h Header) Set(key, value string)
HeaderSet(h, key, value) == HeaderAssign(h, key, <<value>>)

\* func (h Header) Get(key string) string
HeaderGet(h, key) ==
  IF key \in DOMAIN h /\ Len(h[key]) > 0 THEN h[key][1] ELSE ""

\* ----------------------------------------------------------------- Response
\* NewResponseWriter(conn): conn is modelled by the bytes written to it.
NewResponseWriter ==
  [StatusCode |-> 0, Proto |-> "HTTP/1.1", Headers |-> EmptyHeader,
   conn |-> "", headersSent |-> FALSE]

\* The header lines WriteHeader formats while ranging over r.Headers in
\* the order `order`: "%s: %s\r\n" with the key and the first value.
RECURSIVE HeaderLines(_, _)
HeaderLines(h, order) ==
  IF order = <<>> THEN ""
  ELSE Head(order) \o ": " \o h[Head(order)][1] \o "\r\n" \o HeaderLines(h, Tail(order))

\* headerStr of WriteHeader: status line, header lines, blank line.
HeaderStr(statusCode, h, order) ==
  "HTTP/1.1 " \o Itoa(statusCode) \o " " \o StatusText(statusCode) \o "\r\n"
    \o HeaderLines(h, order) \o "\r\n"

\* A faulty WriteHeader that emits the last value of each key, not the first.
RECURSIVE HeaderLinesLast(_, _)
HeaderLinesLast(h, order) ==
  IF order = <<>> THEN ""
  ELSE Head(order) \o ": " \o h[Head(order)][Len(h[Head(order)])] \o "\r\n"
         \o HeaderLinesLast(h, Tail(order))

WriteHeaderLastValue(r, statusCode, order) ==
  IF r.headersSent THEN r
  ELSE [r EXCEPT !.StatusCode = statusCode,
                 !.conn = r.conn \o "HTTP/1.1 " \o Itoa(statusCode) \o " "
                            \o StatusText(statusCode) \o "\r\n"
                            \o HeaderLinesLast(r.Headers, order) \o "\r\n",
                 !.headersSent = TRUE]

\* A faulty WriteHeader that does not test headersSent.
WriteHeaderUnguarded(r, statusCode, order) ==
  [r EXCEPT !.StatusCode = statusCode,
            !.conn = r.conn \o HeaderStr(statusCode, r.Headers, order),
            !.headersSent = TRUE]

\* func (r *Response) WriteHeader(statusCode int); `order` is the order in
\* which the range over the header map visits the keys.
WriteHeader(r, statusCode, order) ==
  IF r.headersSent THEN r
  ELSE [r EXCEPT !.StatusCode = statusCode,
                 !.conn = r.conn \o HeaderStr(statusCode, r.Headers, order),
                 !.headersSent = TRUE]

\* A faulty Write that sends the data without sending the headers first.
WriteNoHeader(r, data, order) == [r EXCEPT !.conn = r.conn \o data]

\* func (r *Response) Write(data []byte) (int, error)
Write(r, data, order) ==
  LET r1 == IF ~r.headersSent THEN WriteHeader(r, r.StatusCode, order) ELSE r
  IN  [r1 EXCEPT !.conn = r1.conn \o data]

\* ------------------------------------------------------------- char strings
\* strings.Split(s, "/"): the pieces of s between the "/" characters.
RECURSIVE Split(_)
Split(s) ==
  IF \A i \in 1..Len(s) : s[i] # "/" THEN <<s>>
  ELSE LET i == CHOOSE k \in 1..Len(s) : s[k] = "/" /\ \A j \in 1..(k - 1) : s[j] # "/"
       IN  <<SubSeq(s, 1, i - 1)>> \o Split(SubSeq(s, i + 1, Len(s)))

\* strings.Split(path, "/")[1:]
Segments(path) == Tail(Split(path))

\* strings.HasPrefix(s, ":") and strings.TrimPrefix(s, ":")
HasColonPrefix(s) == Len(s) >= 1 /\ s[1] = ":"
TrimColonPrefix(s) == IF HasColonPrefix(s) THEN Tail(s) ELSE s

\* strings.HasSuffix(s, "/")
HasSlashSuffix(s) == Len(s) >= 1 /\ s[Len(s)] = "/"

\* --------------------------------------------------------------- route trie
GET == "GET"
POST == "POST"
\* The methods Handle registers a handler for.
HandleMethods == <<"GET", "POST", "PUT", "DELETE", "PATCH", "OPTIONS", "HEAD">>

\* A handler value is the chain of calls it makes, outermost first: a route
\* handler h is <<h>>, and mw(next) is <<mw>> \o next (a middleware runs its
\* own code and then calls next, as LoggingMiddleware does).
NoHandlers == [m \in {} |-> <<>>]
NoParams == [k \in {} |-> <<>>]

\* type RouteNode.  A node is identified by the segments on the way from
\* the root to it; `children` holds the keys of its sync.Map, the child
\* stored under key k being the node Append(node, k).
RouteNode(segment) ==
  [pathSegment |-> segment, handler |-> NoHandlers, children |-> {}, isDynamic |-> FALSE]

Root == <<>>
NilDir == [nil |-> TRUE, dir |-> <<>>]
Dir(d) == [nil |-> FALSE, dir |-> d]

\* func NewServeMux(staticDir *string) *ServeMux
NewServeMux(staticDir) ==
  [staticDir |-> staticDir,
   nodes |-> [n \in {Root} |-> RouteNode(<<>>)],
   middleware |-> <<>>,
   defaultHandler |-> "nil",
   errorHandler |-> "nil"]

\* func (mux *ServeMux) getChild(node, segment): is there a child, and which
HasChild(nodes, node, segment) == segment \in nodes[node].children
getChild(nodes, node, segment) == Append(node, segment)

\* func (mux *ServeMux) getOrCreateChild(node, segment): the trie afterwards
getOrCreateChild(nodes, node, segment) ==
  IF HasChild(nodes, node, segment) THEN nodes
  ELSE LET child == Append(node, segment)
       IN  [n \in (DOMAIN nodes) \cup {child} |->
              IF n = child THEN RouteNode(segment)
              ELSE IF n = node
                   THEN [nodes[n] EXCEPT !.children = nodes[n].children \cup {segment}]
                   ELSE nodes[n]]

\* func (mux *ServeMux) getDynamicChild(node): the children whose segment
\* starts with ":"; Range visits the sync.Map in no fixed order, so any of
\* them may be the one returned.
getDynamicChild(nodes, node) ==
  {Append(node, k) : k \in {c \in nodes[node].children :
                              HasColonPrefix(nodes[Append(node, c)].pathSegment)}}

\* The segment loop of AddRoute: the trie after walking `segments` from
\* currentNode, creating the missing nodes and marking the dynamic ones.
RECURSIVE AddSegments(_, _, _)
AddSegments(nodes, currentNode, segments) ==
  IF segments = <<>> THEN nodes
  ELSE LET segment == Head(segments)
           isDynamic == HasColonPrefix(segment)
           childNode == Append(currentNode, segment)
           created == getOrCreateChild(nodes, currentNode, segment)
           marked == IF isDynamic
                     THEN [created EXCEPT ![childNode].isDynamic = TRUE]
                     ELSE created
       IN  AddSegments(marked, childNode, Tail(segments))

\* A faulty method loop that starts from an empty handler map.
SetHandlersFresh(handlers, methods, handler) ==
  [m \in {methods[i] : i \in 1..Len(methods)} |-> handler]

\* The method loop of AddRoute: currentNode.handler[method] = handler.
RECURSIVE SetHandlers(_, _, _)
SetHandlers(handlers, methods, handler) ==
  IF methods = <<>> THEN handlers
  ELSE SetHandlers([m \in (DOMAIN handlers) \cup {Head(methods)} |->
                      IF m = Head(methods) THEN handler ELSE handlers[m]],
                   Tail(methods), handler)

\* func (mux *ServeMux) AddRoute(pattern, methods, handler)
AddRoute(mux, pattern, methods, handler) ==
  LET segments == Segments(pattern)
      walked == AddSegments(mux.nodes, Root, segments)
  IN  [mux EXCEPT !.nodes =
         [walked EXCEPT ![segments].handler =
            SetHandlers(walked[segments].handler, methods, handler)]]

\* A faulty applyMiddleware that wraps in the opposite order, so that the
\* first registered middleware ends up outermost.
RECURSIVE applyMiddlewareReversed(_, _)
applyMiddlewareReversed(middleware, handler) ==
  IF middleware = <<>> THEN handler
  ELSE <<Head(middleware)>> \o applyMiddlewareReversed(Tail(middleware), handler)

\* func (mux *ServeMux) applyMiddleware(handler)
RECURSIVE applyMiddleware(_, _)
applyMiddleware(middleware, handler) ==
  IF middleware = <<>> THEN handler
  ELSE applyMiddleware(Tail(middleware), <<Head(middleware)>> \o handler)

\* func (mux *ServeMux) Handle(pattern, handler)
Handle(mux, pattern, handler) ==
  AddRoute(mux, pattern, HandleMethods, applyMiddleware(mux.middleware, handler))

\* func (mux *ServeMux) Use(mw Middleware)
Use(mux, mw) == [mux EXCEPT !.middleware = Append(mux.middleware, mw)]

\* func (mux *ServeMux) SetDefaultHandler(handler)
SetDefaultHandler(mux, handler) == [mux EXCEPT !.defaultHandler = handler]

\* func (mux *ServeMux) SetErrorHandler(handler)
SetErrorHandler(mux, handler) == [mux EXCEPT !.errorHandler = handler]

\* A faulty segment loop that tries the dynamic child before the literal one.
RECURSIVE WalkDynamicFirst(_, _, _, _)
WalkDynamicFirst(nodes, segments, node, params) ==
  IF segments = <<>> THEN {[node |-> node, matched |-> TRUE, params |-> params]}
  ELSE LET segment == Head(segments)
       IN  IF getDynamicChild(nodes, node) # {}
           THEN UNION {
             LET dynamicKey == TrimColonPrefix(nodes[dynamicChild].pathSegment)
             IN  WalkDynamicFirst(nodes, Tail(segments), dynamicChild,
                                  [k \in (DOMAIN params) \cup {dynamicKey} |->
                                     IF k = dynamicKey THEN segment ELSE params[k]])
             : dynamicChild \in getDynamicChild(nodes, node)}
           ELSE IF HasChild(nodes, node, segment)
                THEN WalkDynamicFirst(nodes, Tail(segments),
                                      getChild(nodes, node, segment), params)
                ELSE {[node |-> node, matched |-> FALSE, params |-> params]}

\* A faulty segment loop that goes back to a dynamic sibling when the walk
\* below the literal child does not reach the end of the path.
RECURSIVE WalkBacktracking(_, _, _, _)
WalkBacktracking(nodes, segments, node, params) ==
  IF segments = <<>> THEN {[node |-> node, matched |-> TRUE, params |-> params]}
  ELSE LET segment == Head(segments)
           below == IF HasChild(nodes, node, segment)
                    THEN {w \in WalkBacktracking(nodes, Tail(segments),
                                                 getChild(nodes, node, segment), params)
                            : w.matched}
                    ELSE {}
       IN  IF below # {} THEN below
           ELSE IF getDynamicChild(nodes, node) = {}
                THEN {[node |-> node, matched |-> FALSE, params |-> params]}
                ELSE UNION {
                  LET dynamicKey == TrimColonPrefix(nodes[dynamicChild].pathSegment)
                  IN  WalkBacktracking(nodes, Tail(segments), dynamicChild,
                           [k \in (DOMAIN params) \cup {dynamicKey} |->
                              IF k = dynamicKey THEN segment ELSE params[k]])
                  : dynamicChild \in getDynamicChild(nodes, node)}

\* The segment loop of traverseTree: every <<node reached, matched, params>>
\* the loop can end with (one per choice getDynamicChild can make).
RECURSIVE Walk(_, _, _, _)
Walk(nodes, segments, node, params) ==
  IF segments = <<>> THEN {[node |-> node, matched |-> TRUE, params |-> params]}
  ELSE LET segment == Head(segments)
       IN  IF HasChild(nodes, node, segment)
           THEN Walk(nodes, Tail(segments), getChild(nodes, node, segment), params)
           ELSE IF getDynamicChild(nodes, node) = {}
                THEN {[node |-> node, matched |-> FALSE, params |-> params]}
                ELSE UNION {
                  LET dynamicKey == TrimColonPrefix(nodes[dynamicChild].pathSegment)
                  IN  Walk(nodes, Tail(segments), dynamicChild,
                           [k \in (DOMAIN params) \cup {dynamicKey} |->
                              IF k = dynamicKey THEN segment ELSE params[k]])
                  : dynamicChild \in getDynamicChild(nodes, node)}

\* A faulty traverseTree that returns a handler of the node reached
\* whatever the request method is.
traverseTreeAnyMethod(nodes, path, method, node, params) ==
  {IF w.matched /\ DOMAIN nodes[w.node].handler # {}
   THEN [handler |-> nodes[w.node].handler[
                       IF method \in DOMAIN nodes[w.node].handler THEN method
                       ELSE CHOOSE m \in DOMAIN nodes[w.node].handler : TRUE],
         found |-> TRUE, params |-> w.params]
   ELSE [handler |-> <<>>, found |-> FALSE, params |-> w.params]
   : w \in Walk(nodes, Segments(path), node, params)}

\* func (mux *ServeMux) traverseTree(path, method, node, params): the
\* possible results <<handler, found>> together with the params map as the
\* traversal leaves it.
traverseTree(nodes, path, method, node, params) ==
  {IF w.matched /\ method \in DOMAIN nodes[w.node].handler
   THEN [handler |-> nodes[w.node].handler[method], found |-> TRUE, params |-> w.params]
   ELSE [handler |-> <<>>, found |-> FALSE, params |-> w.params]
   : w \in Walk(nodes, Segments(path), node, params)}

\* ------------------------------------------------------ static file serving
\* The files below the static directory: path |-> [isDir, data].
IndexHtml == <<"i", "n", "d", "e", "x", ".", "h", "t", "m", "l">>
StaticDir == <<"w">>
FileSystem ==
  [f \in {StaticDir \o <<"/", "a">>,
          StaticDir \o <<"/", "a", "/">> \o IndexHtml,
          StaticDir \o <<"/", "a", "/", "c">>} |->
     IF f = StaticDir \o <<"/", "a">> THEN [isDir |-> TRUE, data |-> ""]
     ELSE IF f = StaticDir \o <<"/", "a", "/", "c">> THEN [isDir |-> FALSE, data |-> "file c"]
     ELSE [isDir |-> FALSE, data |-> "<html>"]]

\* func fileExists(path string) bool: os.Stat finds a file or a directory.
fileExists(path) == path \in DOMAIN FileSystem

\* filepath.Ext: the suffix from the last "." of the last path element.
RECURSIVE Ext(_, _)
Ext(path, i) ==
  IF i < 1 \/ path[i] = "/" THEN <<>>
  ELSE IF path[i] = "." THEN SubSeq(path, i, Len(path))
  ELSE Ext(path, i - 1)

\* strings.ToLower on the characters file names are made of here.
ToLower(str) ==
  [i \in 1..Len(str) |->
     CASE str[i] = "H" -> "h" [] str[i] = "T" -> "t" [] str[i] = "M" -> "m"
       [] str[i] = "L" -> "l" [] OTHER -> str[i]]

\* func detectContentType(filePath string) string
detectContentType(filePath) ==
  LET ext == ToLower(Ext(filePath, Len(filePath)))
  IN  CASE ext = <<".", "h", "t", "m", "l">> -> "text/html"
        [] ext = <<".", "c", "s", "s">> -> "text/css"
        [] ext = <<".", "j", "s">> -> "application/javascript"
        [] ext = <<".", "p", "n", "g">> -> "image/png"
        [] ext = <<".", "j", "p", "g">> -> "image/jpeg"
        [] ext = <<".", "j", "p", "e", "g">> -> "image/jpeg"
        [] ext = <<".", "s", "v", "g">> -> "image/svg+xml"
        [] ext = <<".", "g", "i", "f">> -> "image/gif"
        [] OTHER -> "application/octet-stream"

\* A faulty serveStaticFile that sets the Content-Type header before it
\* tests whether the file exists.
serveStaticFileEagerHeader(mux, w, r) ==
  IF mux.staticDir.nil THEN {[served |-> FALSE, w |-> w]}
  ELSE LET filePath == mux.staticDir.dir \o r.Path
                         \o (IF HasSlashSuffix(r.Path) THEN IndexHtml ELSE <<>>)
           w1 == [w EXCEPT !.Headers =
                    HeaderAssign(w.Headers, "Content-Type",
                                 <<detectContentType(filePath)>>)]
       IN  IF ~fileExists(filePath) \/ FileSystem[filePath].isDir
           THEN {[served |-> FALSE, w |-> w1]}
           ELSE {[served |-> TRUE,
                  w |-> Write(WriteHeader(w1, StatusOK, order),
                              FileSystem[filePath].data, order)]
                 : order \in Orders(DOMAIN w1.Headers)}

\* func (mux *ServeMux) serveStaticFile(w, r) bool: the possible
\* <<returned value, response afterwards>>.
serveStaticFile(mux, w, r) ==
  IF mux.staticDir.nil THEN {[served |-> FALSE, w |-> w]}
  ELSE LET filePath == mux.staticDir.dir \o r.Path
                         \o (IF HasSlashSuffix(r.Path) THEN IndexHtml ELSE <<>>)
       IN  IF ~fileExists(filePath) THEN {[served |-> FALSE, w |-> w]}
           ELSE IF FileSystem[filePath].isDir THEN {[served |-> FALSE, w |-> w]}
           ELSE LET w1 == [w EXCEPT !.Headers =
                             HeaderAssign(w.Headers, "Content-Type",
                                          <<detectContentType(filePath)>>)]
                IN  {[served |-> TRUE,
                      w |-> Write(WriteHeader(w1, StatusOK, order),
                                  FileSystem[filePath].data, order)]
                     : order \in Orders(DOMAIN w1.Headers)}

\* ------------------------------------------------------ handlers and serving
\* A middleware as the tests write it: it sets the header X-Middleware to
\* its own name and calls next.  A route handler as the tests write it: it
\* sends status 200 and a body naming the handler.  CallHandler gives the
\* possible <<response, calls made>> of calling a handler value.
RECURSIVE CallHandler(_, _, _)
CallHandler(handler, w, trace) ==
  IF Len(handler) = 1
  THEN {[w |-> Write(WriteHeader(w, StatusOK, order), "route " \o handler[1], order),
         trace |-> Append(trace, handler[1])]
        : order \in Orders(DOMAIN w.Headers)}
  ELSE CallHandler(Tail(handler),
                   [w EXCEPT !.Headers = HeaderSet(w.Headers, "X-Middleware", Head(handler))],
                   Append(trace, Head(handler)))

\* The error handler the tests install with SetErrorHandler.
userErrorHandler(w, statusCode) ==
  {[w |-> Write(WriteHeader(w, statusCode, order),
                "Error " \o StatusText(statusCode), order),
    trace |-> <<"errorHandler(" \o Itoa(statusCode) \o ")">>]
   : order \in Orders(DOMAIN w.Headers)}

\* func (mux *ServeMux) defaultErrorHandler(w, _, statusCode)
defaultErrorHandler(w, statusCode) ==
  {[w |-> Write(WriteHeader(w, statusCode, order),
                IF statusCode = StatusNotFound THEN StatusText(StatusNotFound) \o "\n"
                ELSE "Error: " \o Itoa(statusCode) \o "\n", order),
    trace |-> <<"defaultErrorHandler(" \o Itoa(statusCode) \o ")">>]
   : order \in Orders(DOMAIN w.Headers)}

NilParams == [nil |-> TRUE, kv |-> NoParams]
NewRequest(method, path) == [Method |-> method, Path |-> path, Params |-> NilParams]

\* A faulty ServeHTTP that attaches the params to the request before it
\* tests whether a handler was found.
ServeHTTPParamsFirst(mux, w, r) ==
  UNION {
    IF ~mux.staticDir.nil /\ st.served
    THEN {[w |-> st.w, r |-> r, trace |-> <<>>, static |-> TRUE, found |-> FALSE]}
    ELSE UNION {
      LET r1 == [r EXCEPT !.Params = [nil |-> FALSE, kv |-> t.params]]
      IN  IF ~t.found
          THEN {[w |-> e.w, r |-> r1, trace |-> e.trace, static |-> FALSE, found |-> FALSE]
                : e \in IF mux.errorHandler # "nil"
                        THEN userErrorHandler(st.w, StatusNotFound)
                        ELSE defaultErrorHandler(st.w, StatusNotFound)}
          ELSE {[w |-> c.w, r |-> r1, trace |-> c.trace, static |-> FALSE, found |-> TRUE]
                : c \in CallHandler(applyMiddleware(mux.middleware, t.handler), st.w, <<>>)}
      : t \in traverseTree(mux.nodes, r.Path, r.Method, Root, NoParams)}
    : st \in serveStaticFile(mux, w, r)}

\* A faulty ServeHTTP that wraps the error handler in the middleware.
ServeHTTPMiddlewareOnMiss(mux, w, r) ==
  UNION {
    IF ~mux.staticDir.nil /\ st.served
    THEN {[w |-> st.w, r |-> r, trace |-> <<>>, static |-> TRUE, found |-> FALSE]}
    ELSE UNION {
      IF ~t.found
      THEN {[w |-> c.w, r |-> r, trace |-> c.trace, static |-> FALSE, found |-> FALSE]
            : c \in CallHandler(applyMiddleware(mux.middleware, <<"errorHandler(404)">>),
                                st.w, <<>>)}
      ELSE {[w |-> c.w, r |-> [r EXCEPT !.Params = [nil |-> FALSE, kv |-> t.params]],
             trace |-> c.trace, static |-> FALSE, found |-> TRUE]
            : c \in CallHandler(applyMiddleware(mux.middleware, t.handler), st.w, <<>>)}
      : t \in traverseTree(mux.nodes, r.Path, r.Method, Root, NoParams)}
    : st \in serveStaticFile(mux, w, r)}

\* func (mux *ServeMux) ServeHTTP(w, r): the possible outcomes, each the
\* response and the request as ServeHTTP leaves them, the calls it made,
\* whether a static file was served and whether traverseTree found a handler.
ServeHTTP(mux, w, r) ==
  UNION {
    IF ~mux.staticDir.nil /\ st.served
    THEN {[w |-> st.w, r |-> r, trace |-> <<>>, static |-> TRUE, found |-> FALSE]}
    ELSE UNION {
      IF ~t.found
      THEN {[w |-> e.w, r |-> r, trace |-> e.trace, static |-> FALSE, found |-> FALSE]
            : e \in IF mux.errorHandler # "nil"
                    THEN userErrorHandler(st.w, StatusNotFound)
                    ELSE defaultErrorHandler(st.w, StatusNotFound)}
      ELSE {[w |-> c.w, r |-> [r EXCEPT !.Params = [nil |-> FALSE, kv |-> t.params]],
             trace |-> c.trace, static |-> FALSE, found |-> TRUE]
            : c \in CallHandler(applyMiddleware(mux.middleware, t.handler), st.w, <<>>)}
      : t \in traverseTree(mux.nodes, r.Path, r.Method, Root, NoParams)}
    : st \in serveStaticFile(mux, w, r)}

\* ------------------------------------------------------------ wire parser
\* The bytes a client sends are a sequence of one-character strings; `end`
\* tells what a read finds after the last byte: "open" (the peer is silent
\* and the read blocks), "EOF" (the peer closed) or "reset" (an I/O error).
Stream(buf, end) == [buf |-> buf, end |-> end]

\* one-character strings joined into a string
RECURSIVE Str(_)
Str(s) == IF s = <<>> THEN "" ELSE s[1] \o Str(Tail(s))

\* strings.Index(s, c) for a one-byte separator, 1-based; 0 when absent
RECURSIVE IndexOf(_, _)
IndexOf(s, c) ==
  IF s = <<>> THEN 0
  ELSE IF s[1] = c THEN 1
  ELSE LET i == IndexOf(Tail(s), c) IN IF i = 0 THEN 0 ELSE i + 1

\* reader.ReadString('\n'): the bytes up to and including the first "\n";
\* without one, everything buffered and the error the stream ends with.
ReadString(stream) ==
  LET i == IndexOf(stream.buf, "\n")
  IN  IF i > 0
      THEN [line |-> SubSeq(stream.buf, 1, i),
            rest |-> Stream(SubSeq(stream.buf, i + 1, Len(stream.buf)), stream.end),
            err |-> "nil"]
      ELSE [line |-> stream.buf,
            rest |-> Stream(<<>>, stream.end),
            err |-> IF stream.end = "open" THEN "blocked" ELSE stream.end]

Whitespace == {" ", "\t", "\r", "\n"}

\* strings.Fields(line)
RECURSIVE FieldsAcc(_, _, _)
FieldsAcc(s, cur, acc) ==
  IF s = <<>> THEN (IF cur = <<>> THEN acc ELSE Append(acc, cur))
  ELSE IF s[1] \in Whitespace
       THEN FieldsAcc(Tail(s), <<>>, IF cur = <<>> THEN acc ELSE Append(acc, cur))
       ELSE FieldsAcc(Tail(s), Append(cur, s[1]), acc)
Fields(line) == FieldsAcc(line, <<>>, <<>>)

\* strings.SplitN(s, sep, 2)
SplitN2(s, sep) ==
  LET i == IndexOf(s, sep)
  IN  IF i = 0 THEN <<s>> ELSE <<SubSeq(s, 1, i - 1), SubSeq(s, i + 1, Len(s))>>

\* strings.Split(s, sep)
RECURSIVE SplitOn(_, _)
SplitOn(s, sep) ==
  LET i == IndexOf(s, sep)
  IN  IF i = 0 THEN <<s>>
      ELSE <<SubSeq(s, 1, i - 1)>> \o SplitOn(SubSeq(s, i + 1, Len(s)), sep)

\* strings.TrimSpace(s)
RECURSIVE TrimLeft(_)
TrimLeft(s) == IF s # <<>> /\ s[1] \in Whitespace THEN TrimLeft(Tail(s)) ELSE s
RECURSIVE TrimRight(_)
TrimRight(s) ==
  IF s # <<>> /\ s[Len(s)] \in Whitespace THEN TrimRight(SubSeq(s, 1, Len(s) - 1)) ELSE s
\* A faulty TrimSpace that leaves the blanks and the line end after the text.
TrimSpaceLeftOnly(s) == TrimLeft(s)
TrimSpace(s) == TrimRight(TrimLeft(s))

HexDigits ==
  {"0", "1", "2", "3", "4", "5", "6", "7", "8", "9",
   "a", "b", "c", "d", "e", "f", "A", "B", "C", "D", "E", "F"}

\* url.Parse(rawURL) for an origin-form URL without a valid escape: it fails
\* on a "%" that two hex digits do not follow, and the path is what precedes
\* the query and the fragment.
BadEscape(raw) ==
  \E i \in 1..Len(raw) :
    /\ raw[i] = "%"
    /\ ~(i + 2 <= Len(raw) /\ raw[i + 1] \in HexDigits /\ raw[i + 2] \in HexDigits)
UrlParse(rawURL) ==
  LET noFrag == SplitN2(rawURL, "#")[1]
      path == SplitN2(noFrag, "?")[1]
  IN  [ok |-> ~BadEscape(rawURL), Path |-> IF BadEscape(rawURL) THEN <<>> ELSE path]

CRLF == <<"\r", "\n">>
HTTP11 == <<"H", "T", "T", "P", "/", "1", ".", "1">>
HTTP10 == <<"H", "T", "T", "P", "/", "1", ".", "0">>
CookieKey == <<"C", "o", "o", "k", "i", "e">>

\* func parseCookies(cookieHeader string) []Cookie: the {Name, Value} pairs
RECURSIVE CookiePairs(_)
CookiePairs(parts) ==
  IF parts = <<>> THEN <<>>
  ELSE LET kv == SplitN2(TrimSpace(parts[1]), "=")
       IN  (IF Len(kv) = 2 THEN <<[Name |-> kv[1], Value |-> kv[2]]>> ELSE <<>>)
             \o CookiePairs(Tail(parts))
parseCookies(cookieHeader) == CookiePairs(SplitOn(cookieHeader, ";"))

\* What parseRequestWithTimeout returns: a request and a nil error ("ok"),
\* io.EOF itself ("EOF"), another error ("error", with its message), or
\* nothing yet because a read is blocked ("blocked").
NilRequest ==
  [Method |-> "", Path |-> <<>>, Proto |-> "", Header |-> EmptyHeader,
   Cookies |-> <<>>, Body |-> Stream(<<>>, "open"), Params |-> NilParams]
Parsed(kind, msg, request) == [kind |-> kind, msg |-> msg, req |-> request]
Failed(msg) == Parsed("error", msg, NilRequest)

\* parseRequestWithTimeout: the header loop
RECURSIVE ParseHeaders(_, _, _, _, _)
ParseHeaders(stream, headers, cookies, method, path) ==
  LET r == ReadString(stream)
  IN  IF r.err = "blocked" THEN Parsed("blocked", "", NilRequest)
      ELSE IF r.err # "nil" THEN Failed("failed to read header")
      ELSE IF r.line = CRLF
           THEN Parsed("ok", "",
                       [Method |-> Str(method), Path |-> path, Proto |-> Str(HTTP11),
                        Header |-> headers, Cookies |-> cookies, Body |-> r.rest,
                        Params |-> NilParams])
      ELSE LET parts == SplitN2(r.line, ":")
           IN  IF Len(parts) # 2 THEN Failed("malformed header line")
               ELSE LET key == TrimSpace(parts[1])
                        value == TrimSpace(parts[2])
                        old == IF key \in DOMAIN headers THEN headers[key] ELSE <<>>
                    IN  ParseHeaders(r.rest,
                                     HeaderAssign(headers, key, Append(old, value)),
                                     IF key = CookieKey
                                     THEN cookies \o parseCookies(value) ELSE cookies,
                                     method, path)

\* func parseRequestWithTimeout(reader *bufio.Reader) (*Request, error)
parseRequestWithTimeout(stream) ==
  LET first == ReadString(stream)
  IN  IF first.err = "blocked" THEN Parsed("blocked", "", NilRequest)
      ELSE IF first.err = "EOF" THEN Parsed("EOF", "EOF", NilRequest)
      ELSE IF first.err # "nil" THEN Failed("failed to read request line")
      ELSE LET parts == Fields(first.line)
           IN  IF Len(parts) < 3 THEN Failed("malformed request line")
               ELSE IF parts[3] # HTTP11 THEN Failed("unsupported protocol")
               ELSE LET u == UrlParse(parts[2])
                    IN  IF ~u.ok THEN Failed("failed to parse URL")
                        ELSE ParseHeaders(first.rest, EmptyHeader, <<>>, parts[1], u.Path)

\* ----------------------------------------------------------------- cookie
\* strconv.Itoa(n) as one-character strings
RECURSIVE ItoaChars(_)
ItoaChars(n) ==
  IF n < 0 THEN <<"-">> \o ItoaChars(0 - n)
  ELSE IF n < 10 THEN <<Digit[n + 1]>>
  ELSE ItoaChars(n \div 10) \o <<Digit[(n % 10) + 1]>>

Pad2(n) == <<Digit[((n \div 10) % 10) + 1], Digit[(n % 10) + 1]>>

\* A time.Time by its calendar fields; weekday 0 is Sunday, zone is the
\* abbreviation of its location.
Time(year, month, day, hour, minute, second, weekday, zone) ==
  [year |-> year, month |-> month, day |-> day, hour |-> hour, minute |-> minute,
   second |-> second, weekday |-> weekday, zone |-> zone]
\* the zero Time: January 1, year 1, 00:00:00 UTC, a Monday
ZeroTime == Time(1, 1, 1, 0, 0, 0, 1, <<"U", "T", "C">>)
IsZero(t) == t = ZeroTime

WeekdayNames ==
  <<<<"S", "u", "n">>, <<"M", "o", "n">>, <<"T", "u", "e">>, <<"W", "e", "d">>,
    <<"T", "h", "u">>, <<"F", "r", "i">>, <<"S", "a", "t">>>>
MonthNames ==
  <<<<"J", "a", "n">>, <<"F", "e", "b">>, <<"M", "a", "r">>, <<"A", "p", "r">>,
    <<"M", "a", "y">>, <<"J", "u", "n">>, <<"J", "u", "l">>, <<"A", "u", "g">>,
    <<"S", "e", "p">>, <<"O", "c", "t">>, <<"N", "o", "v">>, <<"D", "e", "c">>>>

\* t.Format(time.RFC1123): "Mon, 02 Jan 2006 15:04:05 MST"
FormatRFC1123(t) ==
  WeekdayNames[t.weekday + 1] \o <<",", " ">> \o Pad2(t.day) \o <<" ">>
    \o MonthNames[t.month] \o <<" ">> \o Pad2(t.year \div 100) \o Pad2(t.year % 100) \o <<" ">>
    \o Pad2(t.hour) \o <<":">> \o Pad2(t.minute) \o <<":">> \o Pad2(t.second)
    \o <<" ">> \o t.zone

\* type Cookie struct
Cookie(name, value, path, domain, expires, maxAge, secure, httpOnly) ==
  [Name |-> name, Value |-> value, Path |-> path, Domain |-> domain,
   Expires |-> expires, MaxAge |-> maxAge, Secure |-> secure, HttpOnly |-> httpOnly]

\* func (c *Cookie) String() string
CookieString(c) ==
  c.Name \o <<"=">> \o c.Value
    \o (IF c.Path # <<>>
        THEN <<";", " ", "P", "a", "t", "h", "=">> \o c.Path ELSE <<>>)
    \o (IF c.Domain # <<>>
        THEN <<";", " ", "D", "o", "m", "a", "i", "n", "=">> \o c.Domain ELSE <<>>)
    \o (IF ~IsZero(c.Expires)
        THEN <<";", " ", "E", "x", "p", "i", "r", "e", "s", "=">>
               \o FormatRFC1123(c.Expires)
        ELSE <<>>)
    \o (IF c.MaxAge > 0
        THEN <<";", " ", "M", "a", "x", "-", "A", "g", "e", "=">> \o ItoaChars(c.MaxAge)
        ELSE <<>>)
    \o (IF c.Secure THEN <<";", " ", "S", "e", "c", "u", "r", "e">> ELSE <<>>)
    \o (IF c.HttpOnly
        THEN <<";", " ", "H", "t", "t", "p", "O", "n", "l", "y">> ELSE <<>>)

SetCookieKey == "Set-Cookie"

\* A faulty SetCookie that, once the headers are sent, also writes the
\* cookie's header line to the connection.
SetCookieWriteThrough(r, c) ==
  [r EXCEPT !.Headers = HeaderSet(r.Headers, SetCookieKey, Str(CookieString(c))),
            !.conn = IF r.headersSent
                     THEN r.conn \o SetCookieKey \o ": " \o Str(CookieString(c)) \o "\r\n"
                     ELSE r.conn]

\* func (r *Response) SetCookie(c *Cookie)
SetCookie(r, c) ==
  [r EXCEPT !.Headers = HeaderSet(r.Headers, SetCookieKey, Str(CookieString(c)))]

\* A faulty DeleteCookie that serializes the Max-Age attribute of the
\* deletion cookie.
DeleteCookieWithMaxAge(r, name) ==
  LET c == Cookie(name, <<>>, <<>>, <<>>, ZeroTime, 0 - 1, FALSE, FALSE)
  IN  [r EXCEPT !.Headers =
         HeaderSet(r.Headers, SetCookieKey,
                   Str(CookieString(c)) \o "; Max-Age=-1")]

\* func (r *Response) DeleteCookie(name string)
DeleteCookie(r, name) ==
  LET c == Cookie(name, <<>>, <<>>, <<>>, ZeroTime, 0 - 1, FALSE, FALSE)
  IN  [r EXCEPT !.Headers = HeaderSet(r.Headers, SetCookieKey, Str(CookieString(c)))]

\* ----------------------------------------------------------------- server
StatusBadRequest == 400

\* The status line handleConn writes when parseRequest fails.
BadRequestReply ==
  "HTTP/1.1 " \o Itoa(StatusBadRequest) \o " " \o StatusText(StatusBadRequest)
    \o "\r\n\r\n"

\* The Handler a Server is built with: the tests' MockHandler, or a handler
\* that returns without writing.
ServerHandlers == {"mock", "silent"}
HandlerServeHTTP(handler, w) ==
  IF handler = "mock"
  THEN Write(WriteHeader(w, StatusOK, <<>>), "Mock response", <<>>)
  ELSE w

\* What parseRequest returned to handleConn.
NoResult == [err |-> "none", req |-> NilRequest]
Result(err, request) == [err |-> err, req |-> request]

\* An accepted connection with its context and its task.  pc is the task's
\* position: "go" (goroutine created), "select" (handleConn registered with
\* the wait group, parseRequest started the parse goroutine), "parked" (the
\* select found no ready case), "returned" (parseRequest returned), "responded"
\* (handleConn reached its end), "unregistered" (wg.Done ran), "closed"
\* (conn.Close and cancel ran).
NewConn(stream) ==
  [stream |-> stream, pc |-> "go",
   parse |-> "none", parsed |-> Parsed("blocked", "", NilRequest),
   ctxDone |-> FALSE, deadlineFirst |-> FALSE,
   got |-> NoResult, out |-> "", closed |-> FALSE,
   handlerCalls |-> 0, parseCalls |-> 0, lateWrites |-> 0]

\* conn.Write(data): lateWrites counts the writes made after conn.Close.
ConnWrite(c, data) ==
  [c EXCEPT !.out = c.out \o data,
            !.lateWrites = c.lateWrites + (IF c.closed THEN 1 ELSE 0)]

\* parseRequest, the result of the done case: what the parse goroutine stored
DoneResult(c) ==
  IF c.parsed.kind = "ok" THEN Result("nil", c.parsed.req)
  ELSE IF c.parsed.kind = "EOF" THEN Result("EOF", NilRequest)
  ELSE Result("error", NilRequest)

\* parseRequest, the result of the ctx.Done() case: nil, ctx.Err()
DeadlineResult == Result("DeadlineExceeded", NilRequest)

\* parseRequest's select: the results of the cases that are ready
SelectReady(c) ==
  (IF c.ctxDone THEN {DeadlineResult} ELSE {})
    \cup (IF c.parse = "done" THEN {DoneResult(c)} ELSE {})

\* A faulty handleConn that returns silently on every parse error.
handleConnSilentOnError(c, handler) ==
  IF c.got.err # "nil" THEN [c EXCEPT !.pc = "responded"]
  ELSE LET res == HandlerServeHTTP(handler, [NewResponseWriter EXCEPT !.conn = c.out])
       IN  [c EXCEPT !.pc = "responded", !.out = res.conn,
                     !.handlerCalls = c.handlerCalls + 1]

\* handleConn after parseRequest returned: the error branches, and the
\* ResponseWriter tied to the connection passed to the handler.
handleConnBody(c, handler) ==
  IF c.got.err = "EOF" THEN [c EXCEPT !.pc = "responded"]
  ELSE IF c.got.err # "nil"
       THEN [ConnWrite(c, BadRequestReply) EXCEPT !.pc = "responded"]
  ELSE LET res == HandlerServeHTTP(handler, [NewResponseWriter EXCEPT !.conn = c.out])
       IN  [c EXCEPT !.pc = "responded", !.out = res.conn,
                     !.handlerCalls = c.handlerCalls + 1,
                     !.lateWrites = c.lateWrites
                                      + (IF c.closed /\ res.conn # c.out THEN 1 ELSE 0)]

\* the deferred conn.Close() that skips the silent EOF path
connCloseUnlessEOF(c) ==
  [c EXCEPT !.pc = "closed", !.closed = (c.got.err # "EOF")]

\* handleConn's deferred conn.Close() and the goroutine's deferred cancel()
connClose(c) == [c EXCEPT !.pc = "closed", !.closed = TRUE]

\* func NewServer(addr, handler): wg is the wait group's counter, shutdown
\* the position of handleSignals ("none": waiting on quit, "waiting": inside
\* Shutdown at wg.Wait, "returned": Shutdown returned), exited whether
\* os.Exit ran, listener the state of the listener of listenAndServe
\* ("open", or "failed" once Accept can only return an error), loop the
\* position of listenAndServe ("accepting": inside its for loop, "returned").
NewServer(handler) ==
  [Handler |-> handler, wg |-> 0, shutdown |-> "none", exited |-> FALSE,
   listener |-> "open", loop |-> "accepting"]

\* ------------------------------------------------- the mux under concurrency
\* At most MaxCalls calls are made on the shared mux.
MaxCalls == 4

\* type RouteNode, as an object: nodes are kept in a sequence and named by
\* their position in it (their address), the root being 1; children is the
\* sync.Map from segment to address, handler the plain Go map.  A node that
\* was replaced in its parent's children stays in the sequence, reachable
\* only from the goroutine that still holds its address.
HeapNode(segment) ==
  [pathSegment |-> segment, handler |-> NoHandlers, children |-> [k \in {} |-> 0],
   isDynamic |-> FALSE]

\* The locals of one call of AddRoute (pattern, methods, handler) or of
\* ServeHTTP (r.URL.Path, r.Method) at its start: the segments still to
\* walk, the node the walk is at, the methods the method loop has still to
\* write, the params map made for the call, and for ServeHTTP the result of
\* traverseTree.  raced tells that the call read or
\* wrote a handler map while another goroutine was writing it.
NewCall(kind, path, methods, handler) ==
  [kind |-> kind, path |-> path, segments |-> Segments(path), methods |-> methods,
   rest |-> methods, handler |-> handler, node |-> 1, params |-> NoParams,
   pc |-> "getChild",
   found |-> FALSE, raced |-> FALSE]

\* A faulty binding that writes into one params map shared by all calls.
BindParamShared(ts, i, key, value) ==
  [j \in DOMAIN ts |->
     IF ts[j].kind = "ServeHTTP"
     THEN [ts[j] EXCEPT !.params = [k \in (DOMAIN @) \cup {key} |->
                                      IF k = key THEN value ELSE @[k]]]
     ELSE ts[j]]

\* params[dynamicKey] = segment, on the params map of call i
BindParam(ts, i, key, value) ==
  [ts EXCEPT ![i].params = [k \in (DOMAIN @) \cup {key} |->
                              IF k = key THEN value ELSE @[k]]]

\* -------------------------------------------------------------------- state
VARIABLES
  resp,        \* the Response under test
  ops,         \* history: the calls made on resp so far, in call order
  mux,         \* the ServeMux
  registered,  \* history: the AddRoute and Handle calls so far, in call order
  req,         \* the request of the latest ServeHTTP call, as the call left it
  served,      \* what the latest ServeHTTP call did
  calls,       \* history: the calls made on resp's header store and cookies
  srv,         \* the Server
  conns,       \* the accepted connections, in accept order
  parsing,     \* the request given to the parser and what the parser returned
  jar,         \* a cookie, its serialization and what the cookie parser read back
  heap,        \* the route nodes of a mux used by several goroutines, by address
  tasks        \* the AddRoute and ServeHTTP calls of these goroutines, step by step

respVars == <<resp, ops>>
muxVars == <<mux, registered, req, served>>
hdrVars == <<calls>>
srvVars == <<srv, conns>>
parseVars == <<parsing>>
cookieVars == <<jar>>
concVars == <<heap, tasks>>
vars == <<resp, ops, mux, registered, req, served, calls, srv, conns, parsing, jar,
          heap, tasks>>

HeaderKeys == {"X-A", "X-B"}
HeaderValues == {"1", "2"}
Codes == {200, 404, 299}
Datas == {"hi", "\r\n"}

Op(name, key, values, code, data) ==
  [name |-> name, key |-> key, values |-> values, code |-> code, data |-> data]

\* Route patterns: /a/b, /a/:x, /a/:x/b, /a/:y and /a/
Patterns ==
  {<<"/", "a", "/", "b">>,
   <<"/", "a", "/", ":", "x">>,
   <<"/", "a", "/", ":", "x", "/", "b">>,
   <<"/", "a", "/", ":", "y">>,
   <<"/", "a", "/">>}
MethodLists == {<<GET>>}
\* Request paths: /a/b, /a/c, /a/:x, /a/c/b, /a/b/b, /a/:x/b, /a/ and /a
RequestPaths ==
  {<<"/", "a", "/", "b">>,
   <<"/", "a", "/", "c">>,
   <<"/", "a", "/", ":", "x">>,
   <<"/", "a", "/", "c", "/", "b">>,
   <<"/", "a", "/", "b", "/", "b">>,
   <<"/", "a", "/", ":", "x", "/", "b">>,
   <<"/", "a", "/">>,
   <<"/", "a">>}
RequestMethods == {GET, POST}

\* The n-th handler passed to AddRoute or Handle, the n-th middleware passed
\* to Use: every call passes a function of its own.
HandlerName(n) == "h" \o Itoa(n)
MiddlewareName(n) == "m" \o Itoa(n)

\* The requests given to the parser: a request line as its tokens, with the
\* method and the path it was written from, and header lines as name, value
\* and the blanks around the value; a Cookie line's value is written from its
\* name/value pairs.
ReqLine(method, path, query, proto, extra) ==
  [tokens |-> <<method, path \o query, proto>> \o extra,
   method |-> method, path |-> path, wellFormed |-> TRUE]
BadUrlLine(method, rawURL) ==
  [tokens |-> <<method, rawURL, HTTP11>>,
   method |-> method, path |-> <<>>, wellFormed |-> FALSE]
ShortLine(tokens) ==
  [tokens |-> tokens, method |-> <<>>, path |-> <<>>, wellFormed |-> FALSE]
RequestLines ==
  LET get == <<"G", "E", "T">>
      post == <<"P", "O", "S", "T">>
  IN  {ReqLine(get, <<"/", "a">>, <<>>, HTTP11, <<>>),
       ReqLine(post, <<"/">>, <<"?", "x", "=", "1">>, HTTP11, <<>>),
       ReqLine(get, <<"/", "a">>, <<>>, HTTP10, <<>>),
       ReqLine(get, <<"/", "a">>, <<>>, HTTP11, <<<<"x">>>>),
       BadUrlLine(get, <<"/", "%", "z", "z">>),
       ShortLine(<<>>),
       ShortLine(<<get>>),
       ShortLine(<<get, <<"/", "a">>>>)}

RECURSIVE FormatCookiePairs(_)
FormatCookiePairs(pairs) ==
  IF pairs = <<>> THEN <<>>
  ELSE pairs[1].Name \o <<"=">> \o pairs[1].Value
         \o (IF Len(pairs) > 1 THEN <<";", " ">> \o FormatCookiePairs(Tail(pairs))
             ELSE <<>>)
HeaderLine(name, lead, value, trail) ==
  [name |-> name, lead |-> lead, value |-> value, trail |-> trail, pairs |-> <<>>]
CookieLine(pairs) ==
  [name |-> CookieKey, lead |-> <<" ">>, value |-> FormatCookiePairs(pairs),
   trail |-> <<>>, pairs |-> pairs]
HeaderLineSpecs ==
  {HeaderLine(<<"A">>, <<" ">>, <<"1">>, <<>>),
   HeaderLine(<<"A">>, <<>>, <<"2">>, <<" ">>),
   HeaderLine(<<"B">>, <<" ">>, <<"x", ":", "y">>, <<>>),
   CookieLine(<<[Name |-> <<"a">>, Value |-> <<"1">>],
                [Name |-> <<"b">>, Value |-> <<"2">>]>>),
   CookieLine(<<[Name |-> <<"c">>, Value |-> <<"3">>]>>)}

RECURSIVE JoinTokens(_)
JoinTokens(tokens) ==
  IF tokens = <<>> THEN <<>>
  ELSE tokens[1] \o (IF Len(tokens) > 1 THEN <<" ">> \o JoinTokens(Tail(tokens))
                     ELSE <<>>)
RECURSIVE HeaderBytes(_)
HeaderBytes(lines) ==
  IF lines = <<>> THEN <<>>
  ELSE lines[1].name \o <<":">> \o lines[1].lead \o lines[1].value
         \o lines[1].trail \o CRLF \o HeaderBytes(Tail(lines))
\* The bytes on the connection: request line, header lines, empty line.
RequestBytes(line, headers) ==
  JoinTokens(line.tokens) \o CRLF \o HeaderBytes(headers) \o CRLF

ParseInput(line) ==
  [line |-> line, headers |-> <<>>, done |-> FALSE,
   result |-> Parsed("none", "", NilRequest)]
NoParsing == ParseInput(ShortLine(<<>>))

\* The cookies given to Cookie.String: every combination of set and unset
\* attributes, a negative, a zero and a positive MaxAge, and a value with
\* and without a ";".
CookieInputs ==
  {Cookie(<<"a">>, v, path, domain, expires, maxAge, secure, httpOnly) :
     v \in {<<"1">>, <<"1", ";", "2">>},
     path \in {<<>>, <<"/">>},
     domain \in {<<>>, <<"d">>},
     expires \in {ZeroTime, Time(2026, 1, 2, 3, 4, 5, 5, <<"U", "T", "C">>)},
     maxAge \in {0 - 1, 0, 60},
     secure \in BOOLEAN,
     httpOnly \in BOOLEAN}
NewJar(c) == [cookie |-> c, pc |-> "new", text |-> <<>>, parsed |-> <<>>]

NotServed ==
  [done |-> FALSE, w |-> NewResponseWriter, trace |-> <<>>, static |-> FALSE, found |-> FALSE]

Init ==
  /\ resp = NewResponseWriter
  /\ ops = <<>>
  /\ mux = NewServeMux(NilDir)
  /\ registered = <<>>
  /\ req = NewRequest("", <<>>)
  /\ served = NotServed
  /\ calls = <<>>
  /\ srv = NewServer("mock")
  /\ conns = <<>>
  /\ parsing = NoParsing
  /\ jar = NewJar(Cookie(<<>>, <<>>, <<>>, <<>>, ZeroTime, 0, FALSE, FALSE))
  /\ heap = <<HeapNode(<<>>)>>
  /\ tasks = <<>>

\* w.Header().Set(key, value)
DoHeaderSet ==
  \E k \in HeaderKeys, v \in HeaderValues :
    /\ Len(ops) < MaxOps
    /\ resp' = [resp EXCEPT !.Headers = HeaderSet(resp.Headers, k, v)]
    /\ ops' = Append(ops, Op("Set", k, <<v>>, 0, ""))
    /\ UNCHANGED <<muxVars, hdrVars, srvVars, parseVars, cookieVars, concVars>>

\* w.Header()[key] = values
DoHeaderAssign ==
  \E k \in HeaderKeys, vs \in {<<"1", "2">>} :
    /\ Len(ops) < MaxOps
    /\ resp' = [resp EXCEPT !.Headers = HeaderAssign(resp.Headers, k, vs)]
    /\ ops' = Append(ops, Op("Assign", k, vs, 0, ""))
    /\ UNCHANGED <<muxVars, hdrVars, srvVars, parseVars, cookieVars, concVars>>

\* w.WriteHeader(code)
DoWriteHeader ==
  \E code \in Codes, order \in Orders(DOMAIN resp.Headers) :
    /\ Len(ops) < MaxOps
    /\ resp' = WriteHeader(resp, code, order)
    /\ ops' = Append(ops, Op("WriteHeader", "", <<>>, code, ""))
    /\ UNCHANGED <<muxVars, hdrVars, srvVars, parseVars, cookieVars, concVars>>

\* w.Write(data)
DoWrite ==
  \E data \in Datas, order \in Orders(DOMAIN resp.Headers) :
    /\ Len(ops) < MaxOps
    /\ resp' = Write(resp, data, order)
    /\ ops' = Append(ops, Op("Write", "", <<>>, 0, data))
    /\ UNCHANGED <<muxVars, hdrVars, srvVars, parseVars, cookieVars, concVars>>

NextResp == DoHeaderSet \/ DoHeaderAssign \/ DoWriteHeader \/ DoWrite

SpecResp == Init /\ [][NextResp]_vars

\* --------------------------------------------------------- mux operations
\* A behaviour sets the mux up (routes, middleware, handlers) and then
\* follows one request through ServeHTTP, as cmd/server/main.go sets the mux
\* up before Run and handleConn serves one request per connection.
Registration(pattern, methods, h, via, wraps) ==
  [pattern |-> pattern, methods |-> methods, h |-> h, via |-> via, wraps |-> wraps]

\* mux.AddRoute(pattern, methods, handler)
DoAddRoute ==
  /\ ~served.done
  /\ \E pattern \in Patterns, methods \in MethodLists :
    /\ Len(registered) < MaxRoutes
    /\ LET h == HandlerName(Len(registered) + 1)
       IN  /\ mux' = AddRoute(mux, pattern, methods, <<h>>)
           /\ registered' = Append(registered,
                                   Registration(pattern, methods, h, "AddRoute", <<>>))
    /\ UNCHANGED <<req, served, respVars, hdrVars, srvVars, parseVars, cookieVars, concVars>>

\* mux.Handle(pattern, handler)
DoHandle ==
  /\ ~served.done
  /\ \E pattern \in Patterns :
    /\ Len(registered) < MaxRoutes
    /\ LET h == HandlerName(Len(registered) + 1)
       IN  /\ mux' = Handle(mux, pattern, <<h>>)
           /\ registered' = Append(registered,
                                   Registration(pattern, HandleMethods, h, "Handle",
                                                mux.middleware))
    /\ UNCHANGED <<req, served, respVars, hdrVars, srvVars, parseVars, cookieVars, concVars>>

\* mux.Use(mw)
DoUse ==
  /\ ~served.done
  /\ Len(mux.middleware) < MaxMiddleware
  /\ mux' = Use(mux, MiddlewareName(Len(mux.middleware) + 1))
  /\ UNCHANGED <<registered, req, served, respVars, hdrVars, srvVars, parseVars, cookieVars, concVars>>

\* mux.SetDefaultHandler(handler)
DoSetDefaultHandler ==
  /\ ~served.done
  /\ mux.defaultHandler = "nil"
  /\ mux' = SetDefaultHandler(mux, "defaultHandler")
  /\ UNCHANGED <<registered, req, served, respVars, hdrVars, srvVars, parseVars, cookieVars, concVars>>

\* mux.SetErrorHandler(handler)
DoSetErrorHandler ==
  /\ ~served.done
  /\ mux.errorHandler = "nil"
  /\ mux' = SetErrorHandler(mux, "errorHandler")
  /\ UNCHANGED <<registered, req, served, respVars, hdrVars, srvVars, parseVars, cookieVars, concVars>>

\* mux.ServeHTTP(w, r) with a new response writer and a new request
DoServeHTTP ==
  /\ ~served.done
  /\ \E method \in RequestMethods, path \in RequestPaths :
    \E out \in ServeHTTP(mux, NewResponseWriter, NewRequest(method, path)) :
      /\ req' = out.r
      /\ served' = [done |-> TRUE, w |-> out.w, trace |-> out.trace,
                    static |-> out.static, found |-> out.found]
      /\ UNCHANGED <<mux, registered, respVars, hdrVars, srvVars, parseVars, cookieVars, concVars>>

NextMux ==
  \/ DoAddRoute \/ DoHandle \/ DoUse
  \/ DoSetDefaultHandler \/ DoSetErrorHandler
  \/ DoServeHTTP

SpecMux == Init /\ [][NextMux]_vars

\* ------------------------------------------- header and cookie operations
\* Calls on the header store of one Response and on the Response's cookie
\* methods; `calls` records them with what Get returned.
CookieNames == {<<>>, <<"a">>}
Cookies ==
  {Cookie(n, v, <<>>, <<>>, ZeroTime, 0, FALSE, FALSE)
     : n \in CookieNames, v \in {<<"1">>, <<"2">>}}
     \cup {Cookie(<<"a">>, <<"1">>, <<"/">>, <<>>, ZeroTime, 60, TRUE, FALSE)}
NoCookie == Cookie(<<>>, <<>>, <<>>, <<>>, ZeroTime, 0, FALSE, FALSE)
StoreKeys == {"X-A", SetCookieKey}
Call(name, key, value, cookie, result) ==
  [name |-> name, key |-> key, value |-> value, cookie |-> cookie, result |-> result]

\* w.Header().Set(key, value)
DoSet ==
  \E k \in StoreKeys, v \in HeaderValues :
    /\ Len(calls) < MaxOps
    /\ resp' = [resp EXCEPT !.Headers = HeaderSet(resp.Headers, k, v)]
    /\ calls' = Append(calls, Call("Set", k, v, NoCookie, ""))
    /\ UNCHANGED <<ops, muxVars, srvVars, parseVars, cookieVars, concVars>>

\* w.Header().Get(key)
DoGet ==
  \E k \in StoreKeys :
    /\ Len(calls) < MaxOps
    /\ calls' = Append(calls, Call("Get", k, "", NoCookie, HeaderGet(resp.Headers, k)))
    /\ UNCHANGED <<resp, ops, muxVars, srvVars, parseVars, cookieVars, concVars>>

\* w.SetCookie(c)
DoSetCookie ==
  \E c \in Cookies :
    /\ Len(calls) < MaxOps
    /\ resp' = SetCookie(resp, c)
    /\ calls' = Append(calls, Call("SetCookie", "", "", c, ""))
    /\ UNCHANGED <<ops, muxVars, srvVars, parseVars, cookieVars, concVars>>

\* w.DeleteCookie(name)
DoDeleteCookie ==
  \E n \in CookieNames :
    /\ Len(calls) < MaxOps
    /\ resp' = DeleteCookie(resp, n)
    /\ calls' = Append(calls, Call("DeleteCookie", Str(n), "", NoCookie, ""))
    /\ UNCHANGED <<ops, muxVars, srvVars, parseVars, cookieVars, concVars>>

NextHeader == DoSet \/ DoGet \/ DoSetCookie \/ DoDeleteCookie

SpecHeader == Init /\ [][NextHeader]_vars

\* ------------------------------------------------- registration of routes
\* AddRoute with one or several methods, and Handle, on one mux.
RouteMethodLists == {<<GET>>, <<POST>>, <<GET, POST>>}

\* mux.AddRoute(pattern, methods, handler)
DoAddRouteMethods ==
  \E pattern \in Patterns, methods \in RouteMethodLists :
    /\ Len(registered) < MaxRoutes
    /\ LET h == HandlerName(Len(registered) + 1)
       IN  /\ mux' = AddRoute(mux, pattern, methods, <<h>>)
           /\ registered' = Append(registered,
                                   Registration(pattern, methods, h, "AddRoute", <<>>))
    /\ UNCHANGED <<req, served, respVars, hdrVars, srvVars, parseVars, cookieVars, concVars>>

NextRoutes == DoAddRouteMethods \/ DoHandle

SpecRoutes == Init /\ [][NextRoutes]_vars

\* ------------------------------------------- a mux with a static directory
\* NewServeMux(&dir): routes, middleware and an error handler are set up,
\* then one request is served.
InitStatic ==
  /\ resp = NewResponseWriter
  /\ ops = <<>>
  /\ mux = NewServeMux(Dir(StaticDir))
  /\ registered = <<>>
  /\ req = NewRequest("", <<>>)
  /\ served = NotServed
  /\ calls = <<>>
  /\ srv = NewServer("mock")
  /\ conns = <<>>
  /\ parsing = NoParsing
  /\ jar = NewJar(Cookie(<<>>, <<>>, <<>>, <<>>, ZeroTime, 0, FALSE, FALSE))
  /\ heap = <<HeapNode(<<>>)>>
  /\ tasks = <<>>

NextStatic == DoAddRoute \/ DoUse \/ DoSetErrorHandler \/ DoServeHTTP

SpecStatic == InitStatic /\ [][NextStatic]_vars

\* ------------------------------------------------------ cookies as text
\* Cookie.String applied to one cookie, and parseCookies applied to the text.
InitCookie ==
  /\ resp = NewResponseWriter
  /\ ops = <<>>
  /\ mux = NewServeMux(NilDir)
  /\ registered = <<>>
  /\ req = NewRequest("", <<>>)
  /\ served = NotServed
  /\ calls = <<>>
  /\ srv = NewServer("mock")
  /\ conns = <<>>
  /\ parsing = NoParsing
  /\ jar \in {NewJar(c) : c \in CookieInputs}
  /\ heap = <<HeapNode(<<>>)>>
  /\ tasks = <<>>

\* c.String()
DoCookieString ==
  /\ jar.pc = "new"
  /\ jar' = [jar EXCEPT !.pc = "serialized", !.text = CookieString(jar.cookie)]
  /\ UNCHANGED <<respVars, muxVars, hdrVars, srvVars, parseVars, concVars>>

\* parseCookies(text): the text read as the value of a Cookie header
DoParseCookies ==
  /\ jar.pc = "serialized"
  /\ jar' = [jar EXCEPT !.pc = "parsed", !.parsed = parseCookies(jar.text)]
  /\ UNCHANGED <<respVars, muxVars, hdrVars, srvVars, parseVars, concVars>>

NextCookie == DoCookieString \/ DoParseCookies

SpecCookie == InitCookie /\ [][NextCookie]_vars

\* ------------------------------------------- goroutines sharing one mux
\* Two goroutines call AddRoute or ServeHTTP on a new mux, every access to
\* a node being one step; when they have returned, two more goroutines call
\* ServeHTTP.  The routes are /a/b for GET and /a/:x for GET and POST, the
\* requests GET /a/b, GET /a/c and POST /a/c.
ServeHTTPCalls ==
  {NewCall("ServeHTTP", <<"/", "a", "/", "b">>, <<GET>>, <<>>),
   NewCall("ServeHTTP", <<"/", "a", "/", "c">>, <<GET>>, <<>>),
   NewCall("ServeHTTP", <<"/", "a", "/", "c">>, <<POST>>, <<>>)}

InitConc ==
  /\ resp = NewResponseWriter
  /\ ops = <<>>
  /\ mux = NewServeMux(NilDir)
  /\ registered = <<>>
  /\ req = NewRequest("", <<>>)
  /\ served = NotServed
  /\ calls = <<>>
  /\ srv = NewServer("mock")
  /\ conns = <<>>
  /\ parsing = NoParsing
  /\ jar = NewJar(Cookie(<<>>, <<>>, <<>>, <<>>, ZeroTime, 0, FALSE, FALSE))
  /\ heap = <<HeapNode(<<>>)>>
  /\ LET AddRouteCalls ==
           {NewCall("AddRoute", <<"/", "a", "/", "b">>, <<GET>>, <<"h1">>),
            NewCall("AddRoute", <<"/", "a", "/", ":", "x">>, <<GET, POST>>, <<"h2">>)}
     IN  tasks \in {<<a, b>> : a \in AddRouteCalls,
                               b \in AddRouteCalls \cup ServeHTTPCalls}

\* A fatal error of the Go runtime ("concurrent map read and map write",
\* "concurrent map writes"), met by call i, ends the process: no goroutine
\* steps after it.
Crash(ts, i) ==
  [j \in DOMAIN ts |-> [ts[j] EXCEPT !.pc = "crashed", !.raced = @ \/ j = i]]
\* The other goroutines that are inside a write of the handler map of node n
Writers(i, n) ==
  {j \in DOMAIN tasks \ {i} : tasks[j].pc = "writing" /\ tasks[j].node = n}
\* The position after one more segment was walked
Advance(t, child, after) ==
  [t EXCEPT !.node = child, !.segments = Tail(t.segments),
            !.pc = IF Tail(t.segments) = <<>> THEN after ELSE "getChild"]

\* AddRoute, one iteration of the segment loop up to the Load of
\* getOrCreateChild: the child found is entered (and marked dynamic), a
\* missing child is remembered as missing.
AddRouteGetChild ==
  \E i \in DOMAIN tasks :
    LET t == tasks[i]
        segment == Head(t.segments)
        children == heap[t.node].children
    IN  /\ t.kind = "AddRoute"
        /\ t.pc = "getChild"
        /\ IF segment \in DOMAIN children
           THEN /\ tasks' = [tasks EXCEPT ![i] = Advance(t, children[segment], "write")]
                /\ heap' = [heap EXCEPT ![children[segment]].isDynamic =
                                          @ \/ HasColonPrefix(segment)]
           ELSE /\ tasks' = [tasks EXCEPT ![i].pc = "Store"]
                /\ heap' = heap
        /\ UNCHANGED <<respVars, muxVars, hdrVars, srvVars, parseVars, cookieVars>>

\* AddRoute, the rest of getOrCreateChild after a Load that found nothing:
\* a new node is stored under the segment, whatever is stored there by now.
AddRouteStore ==
  \E i \in DOMAIN tasks :
    LET t == tasks[i]
        segment == Head(t.segments)
        child == Len(heap) + 1
    IN  /\ t.kind = "AddRoute"
        /\ t.pc = "Store"
        /\ heap' = Append([heap EXCEPT ![t.node].children =
                              [k \in (DOMAIN @) \cup {segment} |->
                                 IF k = segment THEN child ELSE @[k]]],
                          [HeapNode(segment) EXCEPT !.isDynamic = HasColonPrefix(segment)])
        /\ tasks' = [tasks EXCEPT ![i] = Advance(t, child, "write")]
        /\ UNCHANGED <<respVars, muxVars, hdrVars, srvVars, parseVars, cookieVars>>

\* AddRoute, currentNode.handler[method] = handler: the write of the plain
\* map begins and, in a later step, ends.  No lock is held around it; a
\* write that overlaps another write of the same map may end the process.
AddRouteWrite ==
  \E i \in DOMAIN tasks :
    LET t == tasks[i]
    IN  /\ t.kind = "AddRoute"
        /\ t.pc \in {"write", "writing"}
        /\ IF t.pc = "write"
           THEN /\ tasks' = [tasks EXCEPT ![i].pc = "writing"]
                /\ heap' = heap
           ELSE \/ /\ heap' = [heap EXCEPT ![t.node].handler =
                                   SetHandlers(@, <<Head(t.rest)>>, t.handler)]
                   /\ tasks' = [tasks EXCEPT
                                  ![i].rest = Tail(t.rest),
                                  ![i].raced = t.raced \/ Writers(i, t.node) # {},
                                  ![i].pc = IF Tail(t.rest) = <<>>
                                            THEN "returned" ELSE "write"]
                \/ /\ Writers(i, t.node) # {}
                   /\ tasks' = Crash(tasks, i)
                   /\ heap' = heap
        /\ UNCHANGED <<respVars, muxVars, hdrVars, srvVars, parseVars, cookieVars>>

\* ServeHTTP, one iteration of the loop of traverseTree: getChild, and when
\* it finds nothing getDynamicChild, which binds the segment in the params
\* of this call; with neither the call takes the not-found path.  (The Load
\* looks for the segment and the Range for a ":" child only, so a Store
\* between the two gives nothing that a Store before or after both cannot.)
ServeHTTPTraverse ==
  \E i \in DOMAIN tasks :
    LET t == tasks[i]
        segment == Head(t.segments)
        children == heap[t.node].children
        dynamic == {children[k] : k \in {c \in DOMAIN children :
                                           HasColonPrefix(heap[children[c]].pathSegment)}}
    IN  /\ t.kind = "ServeHTTP"
        /\ t.pc = "getChild"
        /\ IF segment \in DOMAIN children
           THEN tasks' = [tasks EXCEPT ![i] = Advance(t, children[segment], "handler")]
           ELSE IF dynamic = {}
                THEN tasks' = [tasks EXCEPT ![i].pc = "returned"]
                ELSE \E d \in dynamic :
                       tasks' = [BindParam(tasks, i, TrimColonPrefix(heap[d].pathSegment),
                                           segment)
                                   EXCEPT ![i] = Advance(@, d, "handler")]
        /\ UNCHANGED <<heap, respVars, muxVars, hdrVars, srvVars, parseVars, cookieVars>>

\* ServeHTTP, the end of traverseTree and the dispatch: node.handler[method]
\* is read without a lock.  A read that overlaps a write of the same map is
\* a data race: it sees the map before the write, or after it, or the
\* runtime ends the process.
ServeHTTPHandler ==
  \E i \in DOMAIN tasks :
    LET t == tasks[i]
        method == t.methods[1]
        writers == Writers(i, t.node)
        seen(h) == [tasks EXCEPT
                      ![i].pc = "returned",
                      ![i].found = method \in DOMAIN h,
                      ![i].handler = IF method \in DOMAIN h THEN h[method] ELSE <<>>,
                      ![i].raced = writers # {}]
    IN  /\ t.kind = "ServeHTTP"
        /\ t.pc = "handler"
        /\ \/ tasks' = seen(heap[t.node].handler)
           \/ \E j \in writers :
                tasks' = seen(SetHandlers(heap[t.node].handler,
                                          <<Head(tasks[j].rest)>>, tasks[j].handler))
           \/ /\ writers # {}
              /\ tasks' = Crash(tasks, i)
        /\ UNCHANGED <<heap, respVars, muxVars, hdrVars, srvVars, parseVars, cookieVars>>

\* Two goroutines call ServeHTTP once the calls before them have returned:
\* each makes its own params map.
ServeHTTPStart ==
  /\ Len(tasks) + 2 <= MaxCalls
  /\ \A i \in DOMAIN tasks : tasks[i].pc = "returned"
  /\ \E a \in ServeHTTPCalls, b \in ServeHTTPCalls : tasks' = tasks \o <<a, b>>
  /\ UNCHANGED <<heap, respVars, muxVars, hdrVars, srvVars, parseVars, cookieVars>>

NextConc ==
  \/ AddRouteGetChild \/ AddRouteStore \/ AddRouteWrite
  \/ ServeHTTPTraverse \/ ServeHTTPHandler \/ ServeHTTPStart

SpecConc == InitConc /\ [][NextConc]_vars

\* ------------------------------------------------------------ the parser
\* parseRequestWithTimeout applied to one request.
InitParse ==
  /\ resp = NewResponseWriter
  /\ ops = <<>>
  /\ mux = NewServeMux(NilDir)
  /\ registered = <<>>
  /\ req = NewRequest("", <<>>)
  /\ served = NotServed
  /\ calls = <<>>
  /\ srv = NewServer("mock")
  /\ conns = <<>>
  /\ parsing \in {ParseInput(l) : l \in RequestLines}
  /\ jar = NewJar(Cookie(<<>>, <<>>, <<>>, <<>>, ZeroTime, 0, FALSE, FALSE))
  /\ heap = <<HeapNode(<<>>)>>
  /\ tasks = <<>>

\* the client sends one more header line
SendHeaderLine ==
  \E l \in HeaderLineSpecs :
    /\ ~parsing.done
    /\ Len(parsing.headers) < MaxHeaderLines
    /\ parsing' = [parsing EXCEPT !.headers = Append(parsing.headers, l)]
    /\ UNCHANGED <<respVars, muxVars, hdrVars, srvVars, cookieVars, concVars>>

\* parseRequestWithTimeout(bufio.NewReader(conn))
DoParseRequest ==
  /\ ~parsing.done
  /\ parsing' = [parsing EXCEPT
        !.done = TRUE,
        !.result = parseRequestWithTimeout(
                     Stream(RequestBytes(parsing.line, parsing.headers), "open"))]
  /\ UNCHANGED <<respVars, muxVars, hdrVars, srvVars, cookieVars, concVars>>

NextParse == SendHeaderLine \/ DoParseRequest

SpecParse == InitParse /\ [][NextParse]_vars

\* ------------------------------------------- one writer, every kind of call
\* A handler that mixes header-store calls, cookie calls and sends on one
\* ResponseWriter, MaxWireCalls calls in all.
WireBudget == Len(ops) + Len(calls) < MaxWireCalls

NextWire ==
  \/ WireBudget /\ DoHeaderSet
  \/ WireBudget /\ DoHeaderAssign
  \/ WireBudget /\ DoSetCookie
  \/ WireBudget /\ DoDeleteCookie
  \/ WireBudget /\ DoWriteHeader
  \/ WireBudget /\ DoWrite

SpecWire == Init /\ [][NextWire]_vars

\* ------------------------------------------------------ server operations
\* Run(addr, handler): the acceptor loop, one task per accepted connection,
\* the parse goroutine and the deadline timer of each, and handleSignals.
\* Nothing runs after os.Exit.
GetLine(url, proto) == <<"G", "E", "T", " ">> \o url \o <<" ">> \o proto \o CRLF

\* What clients send: a request, a request line of one token, a header line
\* without a colon, an HTTP/1.0 request, nothing before closing, nothing at
\* all, and a request line before closing.
ServerStreams ==
  {Stream(GetLine(<<"/">>, HTTP11) \o CRLF, "open"),
   Stream(<<"B", "A", "D">> \o CRLF \o CRLF, "open"),
   Stream(GetLine(<<"/">>, HTTP11) \o <<"b", "a", "d">> \o CRLF \o CRLF, "open"),
   Stream(GetLine(<<"/">>, HTTP10) \o CRLF, "open"),
   Stream(<<>>, "EOF"),
   Stream(<<>>, "open"),
   Stream(GetLine(<<"/">>, HTTP11), "EOF")}

InitServer ==
  /\ resp = NewResponseWriter
  /\ ops = <<>>
  /\ mux = NewServeMux(NilDir)
  /\ registered = <<>>
  /\ req = NewRequest("", <<>>)
  /\ served = NotServed
  /\ calls = <<>>
  /\ srv \in {NewServer(h) : h \in ServerHandlers}
  /\ conns = <<>>
  /\ parsing = NoParsing
  /\ jar = NewJar(Cookie(<<>>, <<>>, <<>>, <<>>, ZeroTime, 0, FALSE, FALSE))
  /\ heap = <<HeapNode(<<>>)>>
  /\ tasks = <<>>

\* ln.Accept() returns a connection: the context with its deadline and the
\* goroutine of the connection are created.
Accept ==
  /\ ~srv.exited
  /\ srv.loop = "accepting"
  /\ srv.listener = "open"
  /\ Len(conns) < MaxConns
  /\ \E stream \in ServerStreams : conns' = Append(conns, NewConn(stream))
  /\ UNCHANGED <<srv, calls, respVars, muxVars, parseVars, cookieVars, concVars>>

\* ln.Accept() returns an error: it is logged and the loop continues; the
\* server and its connections are as they were.
AcceptError ==
  /\ ~srv.exited
  /\ srv.loop = "accepting"
  /\ UNCHANGED vars

\* The task starts: handleConn defers conn.Close, calls wg.Add(1), defers
\* wg.Done, and parseRequest starts the parse goroutine.
TaskStart ==
  \E i \in 1..Len(conns) :
    /\ ~srv.exited
    /\ conns[i].pc = "go"
    /\ srv' = [srv EXCEPT !.wg = srv.wg + 1]
    /\ conns' = [conns EXCEPT ![i].pc = "select", ![i].parse = "running",
                              ![i].parseCalls = conns[i].parseCalls + 1]
    /\ UNCHANGED <<calls, respVars, muxVars, parseVars, cookieVars, concVars>>

\* The parse goroutine finishes parseRequestWithTimeout and closes done.  A
\* read that blocks returns (with an error) once the connection is closed.
\* A task parked in the select is woken with the done case.
ParseFinish ==
  \E i \in 1..Len(conns) :
    /\ ~srv.exited
    /\ conns[i].parse = "running"
    /\ LET r == parseRequestWithTimeout(conns[i].stream)
           parsed == IF r.kind = "blocked" THEN Failed("failed to read") ELSE r
           c == [conns[i] EXCEPT !.parse = "done", !.parsed = parsed]
       IN  /\ r.kind = "blocked" => conns[i].closed
           /\ conns' = [conns EXCEPT ![i] =
                          IF c.pc = "parked"
                          THEN [c EXCEPT !.pc = "returned", !.got = DoneResult(c)]
                          ELSE c]
    /\ UNCHANGED <<srv, calls, respVars, muxVars, parseVars, cookieVars, concVars>>

\* The deadline of the connection's context passes.  A task parked in the
\* select is woken with the ctx.Done() case.  Nothing reads the context
\* once parseRequest has returned.
DeadlineFires ==
  \E i \in 1..Len(conns) :
    /\ ~srv.exited
    /\ ~conns[i].ctxDone
    /\ conns[i].pc \in {"go", "select", "parked"}
    /\ LET c == [conns[i] EXCEPT !.ctxDone = TRUE,
                                 !.deadlineFirst = (conns[i].parse # "done")]
       IN  conns' = [conns EXCEPT ![i] =
                       IF c.pc = "parked"
                       THEN [c EXCEPT !.pc = "returned", !.got = DeadlineResult]
                       ELSE c]
    /\ UNCHANGED <<srv, calls, respVars, muxVars, parseVars, cookieVars, concVars>>

\* parseRequest reaches its select: it takes one of the ready cases, or
\* parks when none is ready.
TaskSelect ==
  \E i \in 1..Len(conns) :
    /\ ~srv.exited
    /\ conns[i].pc = "select"
    /\ IF SelectReady(conns[i]) = {}
       THEN conns' = [conns EXCEPT ![i].pc = "parked"]
       ELSE \E got \in SelectReady(conns[i]) :
              conns' = [conns EXCEPT ![i].pc = "returned", ![i].got = got]
    /\ UNCHANGED <<srv, calls, respVars, muxVars, parseVars, cookieVars, concVars>>

\* handleConn acts on what parseRequest returned.
TaskRespond ==
  \E i \in 1..Len(conns) :
    /\ ~srv.exited
    /\ conns[i].pc = "returned"
    /\ conns' = [conns EXCEPT ![i] = handleConnBody(conns[i], srv.Handler)]
    /\ UNCHANGED <<srv, calls, respVars, muxVars, parseVars, cookieVars, concVars>>

\* handleConn returns: the deferred wg.Done runs.
TaskDone ==
  \E i \in 1..Len(conns) :
    /\ ~srv.exited
    /\ conns[i].pc = "responded"
    /\ srv' = [srv EXCEPT !.wg = srv.wg - 1]
    /\ conns' = [conns EXCEPT ![i].pc = "unregistered"]
    /\ UNCHANGED <<calls, respVars, muxVars, parseVars, cookieVars, concVars>>

\* the deferred conn.Close runs, then the goroutine's deferred cancel.
TaskClose ==
  \E i \in 1..Len(conns) :
    /\ ~srv.exited
    /\ conns[i].pc = "unregistered"
    /\ conns' = [conns EXCEPT ![i] = connClose(conns[i])]
    /\ UNCHANGED <<srv, calls, respVars, muxVars, parseVars, cookieVars, concVars>>

\* A signal arrives on quit: handleSignals calls Shutdown, which takes the
\* mutex and calls wg.Wait.
Signal ==
  /\ ~srv.exited
  /\ srv.shutdown = "none"
  /\ srv' = [srv EXCEPT !.shutdown = "waiting"]
  /\ UNCHANGED <<conns, calls, respVars, muxVars, parseVars, cookieVars, concVars>>

\* wg.Wait returns when the counter is zero, and Shutdown returns.
ShutdownReturn ==
  /\ ~srv.exited
  /\ srv.shutdown = "waiting"
  /\ srv.wg = 0
  /\ srv' = [srv EXCEPT !.shutdown = "returned"]
  /\ UNCHANGED <<conns, calls, respVars, muxVars, parseVars, cookieVars, concVars>>

\* os.Exit(0)
Exit ==
  /\ ~srv.exited
  /\ srv.shutdown = "returned"
  /\ srv' = [srv EXCEPT !.exited = TRUE]
  /\ UNCHANGED <<conns, calls, respVars, muxVars, parseVars, cookieVars, concVars>>

NextServer ==
  \/ Accept \/ AcceptError
  \/ TaskStart \/ ParseFinish \/ DeadlineFires \/ TaskSelect
  \/ TaskRespond \/ TaskDone \/ TaskClose
  \/ Signal \/ ShutdownReturn \/ Exit

SpecServer == InitServer /\ [][NextServer]_vars

\* ------------------------------------------ the server on a failing transport
\* Connections whose reads end with an I/O error (a reset by the peer)
\* before the header block is complete: at once, inside the request line, or
\* after the request line.
FailingStreams ==
  {Stream(<<>>, "reset"),
   Stream(<<"G", "E">>, "reset"),
   Stream(GetLine(<<"/">>, HTTP11), "reset")}

AcceptFailing ==
  /\ ~srv.exited
  /\ srv.loop = "accepting"
  /\ srv.listener = "open"
  /\ Len(conns) < MaxConns
  /\ \E stream \in FailingStreams : conns' = Append(conns, NewConn(stream))
  /\ UNCHANGED <<srv, calls, respVars, muxVars, parseVars, cookieVars, concVars>>

\* ln.Accept() returns an error that every later call will return as well
\* (the listener was closed, its descriptor is no longer valid): the branch
\* `if err != nil` logs it and continues, as for any other error, and
\* listenAndServe stays in its loop.
AcceptFatal ==
  /\ ~srv.exited
  /\ srv.loop = "accepting"
  /\ srv.listener = "open"
  /\ srv' = [srv EXCEPT !.listener = "failed"]
  /\ UNCHANGED <<conns, calls, respVars, muxVars, parseVars, cookieVars, concVars>>

NextServerIO ==
  \/ AcceptFailing \/ AcceptError \/ AcceptFatal
  \/ TaskStart \/ ParseFinish \/ DeadlineFires \/ TaskSelect
  \/ TaskRespond \/ TaskDone \/ TaskClose
  \/ Signal \/ ShutdownReturn \/ Exit

SpecServerIO == InitServer /\ [][NextServerIO]_vars

\* ------------------------------------------------- claims on the Response
IsSend(op) == op.name \in {"WriteHeader", "Write"}
LastOp(h) == h[Len(h)]
\* The step appends one call named `name` to the history.
Called(name) == Len(ops') = Len(ops) + 1 /\ LastOp(ops').name = name

\* C1: on one Response only the first WriteHeader call writes a status line
\* and header block; every later WriteHeader call writes nothing to the
\* connection and leaves the recorded status code unchanged.
C1_RepeatedWriteHeaderIgnored ==
  [][(Called("WriteHeader") /\ \E i \in 1..Len(ops) : ops[i].name = "WriteHeader")
       => (resp'.conn = resp.conn /\ resp'.StatusCode = resp.StatusCode)]_vars

\* C1 witness: WriteHeader was called twice with different codes.
C1_Witness ==
  \E i, j \in 1..Len(ops) :
    /\ i < j
    /\ ops[i].name = "WriteHeader" /\ ops[j].name = "WriteHeader"
    /\ ops[i].code # ops[j].code
    /\ \A k \in 1..(i - 1) : ~IsSend(ops[k])

\* The header store produced by the header mutations among the first n calls.
RECURSIVE StoreAfter(_, _)
StoreAfter(h, n) ==
  IF n = 0 THEN EmptyHeader
  ELSE IF h[n].name \in {"Set", "Assign"}
       THEN HeaderAssign(StoreAfter(h, n - 1), h[n].key, h[n].values)
       ELSE StoreAfter(h, n - 1)

\* The arguments of the Write calls of a history, concatenated in call order.
RECURSIVE WrittenData(_)
WrittenData(h) ==
  IF h = <<>> THEN ""
  ELSE (IF Head(h).name = "Write" THEN Head(h).data ELSE "") \o WrittenData(Tail(h))

\* One "Name: value\r\n" line per key, with the key's first value.
RECURSIVE ExpectedHeaderBlock(_, _)
ExpectedHeaderBlock(store, order) ==
  IF order = <<>> THEN ""
  ELSE Head(order) \o ": " \o Head(store[Head(order)]) \o "\r\n"
         \o ExpectedHeaderBlock(store, Tail(order))

\* Index of the first WriteHeader or Write call of a history.
FirstSend(h) ==
  CHOOSE i \in 1..Len(h) : IsSend(h[i]) /\ \A j \in 1..(i - 1) : ~IsSend(h[j])

\* C2: once a WriteHeader or Write has been called, the bytes on the
\* connection are exactly one status line "HTTP/1.1 <code> <reason>\r\n", one
\* "Name: value\r\n" line per key of the header store as it was when the
\* block was sent (with the key's first value), one "\r\n", and then all
\* Write arguments in call order.
C2_WireFormat ==
  (\E i \in 1..Len(ops) : IsSend(ops[i])) =>
    LET i == FirstSend(ops)
        code == IF ops[i].name = "WriteHeader" THEN ops[i].code ELSE 0
        store == StoreAfter(ops, i - 1)
    IN  \E order \in Orders(DOMAIN store) :
          resp.conn = "HTTP/1.1 " \o Itoa(code) \o " " \o StatusText(code) \o "\r\n"
                        \o ExpectedHeaderBlock(store, order) \o "\r\n"
                        \o WrittenData(ops)

\* C2 witness: a two-valued header was stored, the headers were sent, a
\* header was changed afterwards and data was written after that.
C2_Witness ==
  /\ Len(ops) >= 1 /\ \E i \in 1..Len(ops) : IsSend(ops[i])
  /\ LET i == FirstSend(ops)
     IN  /\ \E k \in DOMAIN StoreAfter(ops, i - 1) : Len(StoreAfter(ops, i - 1)[k]) = 2
         /\ \E j \in (i + 1)..Len(ops) :
              /\ ops[j].name \in {"Set", "Assign"}
              /\ \E l \in (j + 1)..Len(ops) : ops[l].name = "Write"

\* C3: a Write on a Response whose headers are not yet sent first performs
\* WriteHeader with the current status code and only then writes the data:
\* nothing is on the wire before, and afterwards the wire holds the status
\* line and header block followed by the data.
C3_ImplicitWriteHeader ==
  [][(Called("Write") /\ ~resp.headersSent)
       => /\ resp.conn = ""
          /\ resp'.headersSent
          /\ resp'.StatusCode = resp.StatusCode
          /\ \E order \in Orders(DOMAIN resp.Headers) :
               resp'.conn = "HTTP/1.1 " \o Itoa(resp.StatusCode) \o " "
                              \o StatusText(resp.StatusCode) \o "\r\n"
                              \o ExpectedHeaderBlock(resp.Headers, order) \o "\r\n"
                              \o LastOp(ops').data]_vars

\* C3 witness: the first call that sent anything was a Write, made after a
\* header had been stored.
C3_Witness ==
  /\ \E i \in 1..Len(ops) : IsSend(ops[i])
  /\ ops[FirstSend(ops)].name = "Write"
  /\ FirstSend(ops) > 1
  /\ resp.headersSent

\* ------------------------------------------------------ claims on the mux
Range(seq) == {seq[i] : i \in 1..Len(seq)}
Last(seq) == seq[Len(seq)]

\* The registrations of (pattern, method), by position in the history.
RegistrationsOf(pattern, method) ==
  {i \in 1..Len(registered) :
     registered[i].pattern = pattern /\ method \in Range(registered[i].methods)}
IsRegistered(pattern, method) == RegistrationsOf(pattern, method) # {}
\* The latest registration of (pattern, method): the route now in force.
Route(pattern, method) ==
  registered[CHOOSE i \in RegistrationsOf(pattern, method) :
               \A j \in RegistrationsOf(pattern, method) : j <= i]
RegisteredPatterns == {registered[i].pattern : i \in 1..Len(registered)}

IsLiteral(pattern) == \A i \in 1..Len(Segments(pattern)) : ~HasColonPrefix(Segments(pattern)[i])
\* The names of the route handlers passed to AddRoute and Handle so far.
RouteHandlers == {registered[i].h : i \in 1..Len(registered)}
\* The route handlers the latest ServeHTTP call invoked.
Invoked == Range(served.trace) \cap RouteHandlers

\* The pattern matches the path: as many segments, and every pattern
\* segment is a parameter or equals the path's segment.
Matches(pattern, path) ==
  /\ Len(Segments(pattern)) = Len(Segments(path))
  /\ \A i \in 1..Len(Segments(pattern)) :
       HasColonPrefix(Segments(pattern)[i]) \/ Segments(pattern)[i] = Segments(path)[i]

DefaultNotFound == "HTTP/1.1 404 Not Found\r\n\r\nNot Found\n"

\* C4: on a mux without a static directory, a request (P, M) for a literal
\* pattern P registered with method M is dispatched to the handler registered
\* for (P, M); a request (P, M') with M' not registered at P is a route miss
\* handled through the 404 error path (by default status 404 and body
\* "Not Found\n") and reaches no route handler.
C4_LiteralRouteDispatch ==
  (served.done /\ mux.staticDir.nil /\ req.Path \in RegisteredPatterns /\ IsLiteral(req.Path)) =>
    IF IsRegistered(req.Path, req.Method)
    THEN /\ served.found
         /\ Invoked = {Route(req.Path, req.Method).h}
         /\ Last(served.trace) = Route(req.Path, req.Method).h
    ELSE /\ ~served.found
         /\ Invoked = {}
         /\ served.w.StatusCode = 404
         /\ served.trace = IF mux.errorHandler = "nil"
                           THEN <<"defaultErrorHandler(404)">>
                           ELSE <<"errorHandler(404)">>
         /\ mux.errorHandler = "nil" => served.w.conn = DefaultNotFound

\* C4 witness: the literal pattern of the request is registered, but not
\* for the request's method, and the default 404 was sent.
C4_Witness ==
  /\ served.done /\ req.Path \in RegisteredPatterns /\ IsLiteral(req.Path)
  /\ ~IsRegistered(req.Path, req.Method)
  /\ served.w.conn = DefaultNotFound

\* A child of the node a pattern segment hangs under shadows it for the
\* path segment s only if it is a literal child: literal children shadow
\* parameter children.  ShadowFree holds when no literal sibling of a
\* parameter segment of `pattern` is named like the path's segment there
\* and the parameter child is the only parameter child of its parent.
ShadowFree(pattern, path) ==
  \A i \in 1..Len(Segments(pattern)) :
    HasColonPrefix(Segments(pattern)[i]) =>
      LET parent == SubSeq(Segments(pattern), 1, i - 1)
      IN  \A k \in mux.nodes[parent].children :
            IF HasColonPrefix(k) THEN k = Segments(pattern)[i]
            ELSE k # Segments(path)[i]

\* C5: a request whose path matches a parameterized pattern registered for
\* the request's method is dispatched to that route's handler with
\* Params[name] = the path's segment, for every parameter segment ":name" of
\* the pattern.  (Stated for the requests no literal sibling shadows and
\* for parameter segments without a second parameter sibling; the claim as
\* written covers more.)
C5_ParamRouteBindsSegment ==
  served.done =>
    \A pattern \in RegisteredPatterns :
      (/\ ~IsLiteral(pattern)
       /\ IsRegistered(pattern, req.Method)
       /\ Matches(pattern, req.Path)
       /\ ShadowFree(pattern, req.Path))
      => /\ served.found
         /\ Last(served.trace) = Route(pattern, req.Method).h
         /\ ~req.Params.nil
         /\ \A i \in 1..Len(Segments(pattern)) :
              HasColonPrefix(Segments(pattern)[i]) =>
                /\ Tail(Segments(pattern)[i]) \in DOMAIN req.Params.kv
                /\ req.Params.kv[Tail(Segments(pattern)[i])] = Segments(req.Path)[i]

\* C6: a literal child shadows a parameter child of the same parent in
\* either registration order: when a literal pattern and a parameterized
\* sibling pattern (same parent, last segment ":name") are both registered
\* for the request's method, a request for the literal path reaches the
\* literal route's handler and binds no parameter.
C6_LiteralShadowsDynamic ==
  served.done =>
    \A lit \in RegisteredPatterns, dyn \in RegisteredPatterns :
      (/\ IsLiteral(lit) /\ req.Path = lit
       /\ Len(Segments(dyn)) = Len(Segments(lit))
       /\ HasColonPrefix(Last(Segments(dyn)))
       /\ SubSeq(Segments(dyn), 1, Len(Segments(dyn)) - 1)
            = SubSeq(Segments(lit), 1, Len(Segments(lit)) - 1)
       /\ IsRegistered(lit, req.Method) /\ IsRegistered(dyn, req.Method))
      => /\ served.found
         /\ Last(served.trace) = Route(lit, req.Method).h
         /\ Route(dyn, req.Method).h \notin Range(served.trace)
         /\ Tail(Last(Segments(dyn))) \notin DOMAIN req.Params.kv

\* C6 witness: /a/b was registered first and /a/:x after it, both for GET,
\* and GET /a/b was served by the handler of /a/b.
C6_Witness ==
  /\ served.done /\ Len(registered) = 2
  /\ registered[1].pattern = <<"/", "a", "/", "b">>
  /\ registered[2].pattern = <<"/", "a", "/", ":", "x">>
  /\ req.Path = <<"/", "a", "/", "b">> /\ req.Method = GET
  /\ Last(served.trace) = registered[1].h

C8_DefaultHandlerServesMiss ==
  (served.done /\ ~served.found /\ mux.defaultHandler # "nil" /\ mux.errorHandler = "nil")
    => served.trace = <<mux.defaultHandler>>

\* C9: a matched request runs through the middlewares m1..mn registered
\* with Use with mn outermost and m1 innermost: the calls start with
\* mn, ..., m1 in this order, m1 is the last middleware to run before the
\* route handler, and the route handler runs last.
C9_MiddlewareOrder ==
  (served.done /\ served.found) =>
    LET n == Len(mux.middleware)
        t == served.trace
    IN  /\ Len(t) >= n + 1
        /\ \A i \in 1..n : t[i] = mux.middleware[n + 1 - i]
        /\ n >= 1 => t[Len(t) - 1] = mux.middleware[1]
        /\ Last(t) \in RouteHandlers
        /\ \A i \in 1..(Len(t) - 1) : t[i] \in Range(mux.middleware)

\* C9 witness: two middlewares, then a route added with AddRoute, then a hit
\* that ran m2, m1 and the route handler.
C9_Witness ==
  /\ served.done /\ served.found
  /\ Len(mux.middleware) = 2
  /\ served.trace = <<mux.middleware[2], mux.middleware[1], Last(served.trace)>>

\* C10: for every request that hits a route, each middleware registered
\* with Use runs exactly once, whether the route was registered with
\* AddRoute or with Handle.
C10_MiddlewareOncePerRequest ==
  (served.done /\ served.found) =>
    \A m \in Range(mux.middleware) :
      Cardinality({i \in 1..Len(served.trace) : served.trace[i] = m}) = 1

\* --------------------------------------------------- claims on the server
Conn(i) == conns[i]
ConnIds == 1..Len(conns)
\* handleConn reached its end on the connection
Responded(c) == c.pc \in {"responded", "unregistered", "closed"}
\* what the parser makes of all the bytes the client sends
ParseOf(c) == parseRequestWithTimeout(c.stream)
MalformedMessages ==
  {"malformed request line", "malformed header line", "unsupported protocol"}

\* C11: on a connection whose request has a malformed request line, a
\* header line without a colon or a protocol other than HTTP/1.1, the handler
\* is never invoked, nothing but the 400 reply is ever written, the reply
\* "HTTP/1.1 400 Bad Request\r\n\r\n" is on the connection once handleConn is
\* through, and the connection is closed when the task ends.
C11_MalformedRequestGets400 ==
  \A i \in ConnIds :
    (ParseOf(Conn(i)).kind = "error" /\ ParseOf(Conn(i)).msg \in MalformedMessages)
      => /\ Conn(i).handlerCalls = 0
         /\ Conn(i).out \in {"", "HTTP/1.1 400 Bad Request\r\n\r\n"}
         /\ Responded(Conn(i)) => Conn(i).out = "HTTP/1.1 400 Bad Request\r\n\r\n"
         /\ Conn(i).pc = "closed" => Conn(i).closed

\* C11 witness: the parse goroutine failed on a header line without a colon,
\* parseRequest returned its error, and the task replied 400 and closed.
C11_Witness ==
  \E i \in ConnIds :
    /\ ParseOf(Conn(i)).msg = "malformed header line"
    /\ Conn(i).got.err = "error"
    /\ Conn(i).out = "HTTP/1.1 400 Bad Request\r\n\r\n"
    /\ Conn(i).closed

\* C12: if the deadline fires before the parse goroutine has finished,
\* parseRequest returns the deadline error and no request, the task writes
\* the 400 status line, and the handler is never invoked on the connection.
C12_DeadlineFirstGets400 ==
  \A i \in ConnIds :
    Conn(i).deadlineFirst
      => /\ Conn(i).got.err \in {"none", "DeadlineExceeded"}
         /\ Conn(i).handlerCalls = 0
         /\ Responded(Conn(i)) => Conn(i).out = BadRequestReply

\* C13: if the first read reports end-of-file before any byte arrived (and
\* the deadline had not fired by then), the task writes nothing and does not
\* invoke the handler.
C13_EOFClosesSilently ==
  \A i \in ConnIds :
    (/\ Conn(i).stream = Stream(<<>>, "EOF")
     /\ Conn(i).parse = "done"
     /\ ~Conn(i).deadlineFirst
     /\ Responded(Conn(i)))
      => Conn(i).out = "" /\ Conn(i).handlerCalls = 0

\* C14: Shutdown has not returned and the process has not exited while an
\* accepted connection has not been handled to the end of handleConn.
C14_ShutdownWaitsForConnections ==
  (srv.shutdown = "returned" \/ srv.exited)
    => \A i \in ConnIds : Conn(i).pc \in {"unregistered", "closed"}

\* C15: once Shutdown has begun, no connection is accepted.
C15_NoAcceptAfterShutdown ==
  [][srv.shutdown # "none" => Len(conns') = Len(conns)]_vars

\* C16: every connection whose task has ended is closed; once a connection
\* is closed it stays closed and nothing more is written to it; parseRequest
\* is called at most once and the handler at most once per connection.
C16_SocketClosedOnEveryExit ==
  [][\A i \in 1..Len(conns') :
       /\ conns'[i].pc = "closed" => conns'[i].closed
       /\ conns'[i].lateWrites = 0
       /\ conns'[i].parseCalls <= 1
       /\ conns'[i].handlerCalls <= 1
       /\ (i <= Len(conns) /\ conns[i].closed)
            => conns'[i].closed /\ conns'[i].out = conns[i].out]_vars

\* C16 witness: a task ended on the silent EOF path with its socket closed
\* and nothing written.
C16_Witness ==
  \E i \in ConnIds :
    /\ Conn(i).pc = "closed" /\ Conn(i).closed
    /\ Conn(i).got.err = "EOF"
    /\ Conn(i).parseCalls = 1 /\ Conn(i).out = ""

\* the bytes begin with a status line and the (empty) header block
HandlerBodies == {"", "Mock response"}
BeginsWithHeaderBlock(out) ==
  \E data \in HandlerBodies :
    out = "HTTP/1.1 " \o Itoa(StatusOK) \o " " \o StatusText(StatusOK) \o "\r\n\r\n"
            \o data

\* C17: on every connection whose request was parsed and handed to the
\* handler, the bytes sent by the time the connection is closed begin with a
\* status line and header block, whatever the handler does.
C17_ResponseBeginsWithStatusLine ==
  \A i \in ConnIds :
    (Conn(i).got.err = "nil" /\ Conn(i).closed) => BeginsWithHeaderBlock(Conn(i).out)

\* ------------------------------------- claims on the header store, cookies
\* the step is a call of the named operation
HdrStep(name) ==
  /\ Len(calls') = Len(calls) + 1
  /\ calls'[Len(calls')].name = name
ThisCall == calls'[Len(calls')]
ValuesOf(h, k) == IF k \in DOMAIN h THEN h[k] ELSE <<>>
OthersUnchanged(k) ==
  /\ DOMAIN resp'.Headers = (DOMAIN resp.Headers) \cup {k}
  /\ \A o \in (DOMAIN resp.Headers) \ {k} : resp'.Headers[o] = resp.Headers[o]

\* C18: Header.Set(k, v) appends v to the values stored under k, keeping
\* the earlier ones in order; Get(k) returns the first value stored under k,
\* and the empty string for a key never set, without creating the key.
C18_HeaderSetAppends ==
  [][/\ HdrStep("Set")
          => /\ resp'.Headers[ThisCall.key]
                  = Append(ValuesOf(resp.Headers, ThisCall.key), ThisCall.value)
             /\ OthersUnchanged(ThisCall.key)
     /\ HdrStep("Get")
          => /\ ThisCall.result
                  = (IF ValuesOf(resp.Headers, ThisCall.key) = <<>> THEN ""
                     ELSE ValuesOf(resp.Headers, ThisCall.key)[1])
             /\ resp'.Headers = resp.Headers]_vars

\* C19: Response.SetCookie(c) appends the serialized cookie to the values
\* stored under Set-Cookie, after the cookies set earlier, and changes no
\* other header key.
C19_SetCookieAppends ==
  [][(HdrStep("SetCookie") /\ ThisCall.cookie.Name # <<>>)
       => /\ resp'.Headers[SetCookieKey]
               = Append(ValuesOf(resp.Headers, SetCookieKey),
                        Str(CookieString(ThisCall.cookie)))
          /\ OthersUnchanged(SetCookieKey)]_vars

\* C20: Response.SetCookie with a cookie whose Name is empty leaves the
\* header store unchanged.
C20_EmptyNameRejected ==
  [][(HdrStep("SetCookie") /\ ThisCall.cookie.Name = <<>>)
       => resp'.Headers = resp.Headers]_vars

\* ---------------------------------------------------------------- C21
DeletionCookie(name) == Cookie(name, <<>>, <<>>, <<>>, ZeroTime, 0 - 1, FALSE, FALSE)

\* C21: DeleteCookie(name) leaves the response exactly as
\* SetCookie(Cookie{Name: name, Value: "", MaxAge: -1}) does, and the
\* Set-Cookie value it stores is exactly "name=".
C21_DeleteCookieIsSetCookie ==
  [][HdrStep("DeleteCookie")
       => \A n \in CookieNames :
            Str(n) = ThisCall.key
              => /\ resp' = SetCookie(resp, DeletionCookie(n))
                 /\ Last(resp'.Headers[SetCookieKey]) = Str(n) \o "="]_vars

\* A named cookie was deleted after a cookie had been set.
C21_Witness ==
  /\ Len(calls) >= 2
  /\ calls[Len(calls) - 1].name = "SetCookie"
  /\ calls[Len(calls)].name = "DeleteCookie"
  /\ calls[Len(calls)].key = "a"
  /\ resp.Headers[SetCookieKey] = <<"a=">>

\* ---------------------------------------------------------------- C22
HeaderMutation ==
  \/ Called("Set") \/ Called("Assign")
  \/ HdrStep("SetCookie") \/ HdrStep("DeleteCookie")

\* C22: once the header block has been sent, a change of the header store
\* (direct assignment, Set, SetCookie, DeleteCookie) writes nothing to the
\* connection, and a later Write sends its data alone: the header block on
\* the wire is never sent again or altered.
C22_LateHeaderMutationNotSent ==
  [][/\ (resp.headersSent /\ HeaderMutation)
          => /\ resp'.conn = resp.conn
             /\ resp'.headersSent
     /\ (resp.headersSent /\ Called("Write"))
          => resp'.conn = resp.conn \o LastOp(ops').data
     /\ (resp.headersSent /\ Called("WriteHeader"))
          => resp'.conn = resp.conn]_vars

\* A cookie was put in the store after an empty header block went out, and
\* the wire holds that block and the body only.
C22_Witness ==
  /\ resp.headersSent
  /\ resp.conn = "HTTP/1.1 200 OK\r\n\r\nhi"
  /\ SetCookieKey \in DOMAIN resp.Headers
  /\ Len(calls) = 1
  /\ calls[1].name \in {"SetCookie", "DeleteCookie"}

\* ---------------------------------------------------------------- C23
RECURSIVE ValuesInOrder(_, _)
ValuesInOrder(lines, name) ==
  IF lines = <<>> THEN <<>>
  ELSE (IF lines[1].name = name THEN <<lines[1].value>> ELSE <<>>)
         \o ValuesInOrder(Tail(lines), name)
ExpectedStore(lines) ==
  [n \in {lines[i].name : i \in 1..Len(lines)} |-> ValuesInOrder(lines, n)]
RECURSIVE ExpectedCookies(_)
ExpectedCookies(lines) ==
  IF lines = <<>> THEN <<>>
  ELSE (IF lines[1].name = CookieKey THEN lines[1].pairs ELSE <<>>)
         \o ExpectedCookies(Tail(lines))
RequestLineForm(line) ==
  line.wellFormed /\ Len(line.tokens) = 3 /\ line.tokens[3] = HTTP11

C24_ExactlyThreeTokens ==
  (parsing.done /\ Len(parsing.line.tokens) # 3)
    => /\ parsing.result.kind = "error"
       /\ parsing.result.msg = "malformed request line"
       /\ parsing.result.req = NilRequest

\* ---------------------------------------------------------------- C25
\* C25: when the peer closes the connection after the request line and
\* before the header block is complete (and the deadline has not fired), the
\* task writes no response and does not invoke the handler.
C25_EOFInsideHeadersSilent ==
  \A i \in ConnIds :
    (/\ Conn(i).stream.end = "EOF"
     /\ ParseOf(Conn(i)).msg = "failed to read header"
     /\ ~Conn(i).ctxDone
     /\ Responded(Conn(i)))
      => Conn(i).out = "" /\ Conn(i).handlerCalls = 0

\* ---------------------------------------------------------------- C26
InternalServerErrorReply == "HTTP/1.1 500 Internal Server Error\r\n\r\n"

\* C26: when a read fails with an I/O error other than the deadline before
\* the header block is complete, the task writes the status line
\* 500 Internal Server Error and the connection is closed when the task ends.
C26_IOErrorGets500 ==
  \A i \in ConnIds :
    (/\ Conn(i).stream.end = "reset"
     /\ ParseOf(Conn(i)).kind = "error"
     /\ ~Conn(i).ctxDone
     /\ Responded(Conn(i)))
      => /\ Conn(i).out = InternalServerErrorReply
         /\ Conn(i).pc = "closed" => Conn(i).closed

\* ---------------------------------------------------------------- C27
RequestTimeoutReply == "HTTP/1.1 408 Request Timeout\r\n\r\n"

\* C27: when parseRequest returns because the deadline was exceeded, the
\* status line the task writes is 408 Request Timeout.
C27_DeadlineGets408 ==
  \A i \in ConnIds :
    (Conn(i).got.err = "DeadlineExceeded" /\ Responded(Conn(i)))
      => Conn(i).out = RequestTimeoutReply

\* ---------------------------------------------------------------- C28
\* The request paths whose file exists in the static directory and can be
\* read, with the response that serves the file: /a/c is the file w/a/c,
\* /a/ is the file w/a/index.html; /a is a directory and /a/b does not exist.
StaticReplies ==
  [p \in {<<"/", "a", "/", "c">>, <<"/", "a", "/">>} |->
     IF p = <<"/", "a", "/">>
     THEN "HTTP/1.1 200 OK\r\nContent-Type: text/html\r\n\r\n<html>"
     ELSE "HTTP/1.1 200 OK\r\nContent-Type: application/octet-stream\r\n\r\nfile c"]
AbsentPaths ==
  {p \in RequestPaths : p \notin DOMAIN StaticReplies /\ p # <<"/", "a">>}
WithoutStaticDir == [mux EXCEPT !.staticDir = NilDir]
Outcome ==
  [w |-> served.w, r |-> req, trace |-> served.trace,
   static |-> served.static, found |-> served.found]

\* C28: with a static directory configured, a request whose file exists
\* and is readable is answered with status 200 and the file, without a trie
\* lookup and without any handler being invoked, even if a route matches
\* the path; a request whose file does not exist is dispatched with the
\* outcome the same mux without a static directory gives.
C28_StaticFileFirst ==
  (served.done /\ ~mux.staticDir.nil) =>
    /\ req.Path \in DOMAIN StaticReplies
         => /\ served.static
            /\ served.w.StatusCode = 200
            /\ served.w.conn = StaticReplies[req.Path]
            /\ served.trace = <<>>
            /\ ~served.found
            /\ req.Params.nil
    /\ req.Path \in AbsentPaths
         => /\ ~served.static
            /\ Outcome \in ServeHTTP(WithoutStaticDir, NewResponseWriter,
                                     NewRequest(req.Method, req.Path))

\* GET /a/c was answered with the file although the route /a/:x is
\* registered for GET and a middleware is installed.
C28_Witness ==
  /\ served.done /\ served.static
  /\ req.Path = <<"/", "a", "/", "c">> /\ req.Method = GET
  /\ IsRegistered(<<"/", "a", "/", ":", "x">>, GET)
  /\ Len(mux.middleware) >= 1
  /\ served.w.conn = StaticReplies[req.Path]

\* ---------------------------------------------------------------- C29
\* the step is a call of AddRoute
AddRouteStep ==
  /\ Len(registered') = Len(registered) + 1
  /\ Last(registered').via = "AddRoute"
HandlersAt(nodes, n) == IF n \in DOMAIN nodes THEN nodes[n].handler ELSE NoHandlers

\* C29: AddRoute(P, methods, h) puts h under every method of methods at
\* the terminal node of P, whatever was registered there for these methods
\* before, and leaves the handlers of the other methods of P and of every
\* other node as they were; nodes it creates on the way hold no handler.
C29_AddRouteFrame ==
  [][AddRouteStep =>
       LET reg == Last(registered')
           node == Segments(reg.pattern)
           methods == Range(reg.methods)
       IN  /\ node \in DOMAIN mux'.nodes
           /\ DOMAIN mux'.nodes[node].handler
                = (DOMAIN HandlersAt(mux.nodes, node)) \cup methods
           /\ \A m \in methods : mux'.nodes[node].handler[m] = <<reg.h>>
           /\ \A m \in (DOMAIN HandlersAt(mux.nodes, node)) \ methods :
                mux'.nodes[node].handler[m] = mux.nodes[node].handler[m]
           /\ \A n \in (DOMAIN mux'.nodes) \ {node} :
                mux'.nodes[n].handler = HandlersAt(mux.nodes, n)
           /\ DOMAIN mux.nodes \subseteq DOMAIN mux'.nodes]_vars

\* /a/b was registered with Handle (all methods) and then with AddRoute for
\* GET and POST: these two methods have the new handler, PUT the old one.
C29_Witness ==
  /\ Len(registered) = 2
  /\ registered[1].via = "Handle" /\ registered[2].via = "AddRoute"
  /\ registered[1].pattern = <<"/", "a", "/", "b">>
  /\ registered[2].pattern = <<"/", "a", "/", "b">>
  /\ registered[2].methods = <<GET, POST>>
  /\ mux.nodes[<<"a", "b">>].handler[GET] = <<"h2">>
  /\ mux.nodes[<<"a", "b">>].handler[POST] = <<"h2">>
  /\ mux.nodes[<<"a", "b">>].handler["PUT"] = <<"h1">>

\* ---------------------------------------------------------------- C30
\* a route registered for the request's method whose pattern matches the
\* request's path and ends in "/" exactly when `slash` says so
MatchingRoute(slash) ==
  \E i \in 1..Len(registered) :
    /\ req.Method \in Range(registered[i].methods)
    /\ Matches(registered[i].pattern, req.Path)
    /\ HasSlashSuffix(registered[i].pattern) = slash

\* C30: the empty segment after a trailing slash is matched only as the
\* literal segment "": a request whose path ends in "/" finds a handler only
\* through a pattern that ends in "/" and binds no parameter to the empty
\* segment, and a request whose path does not end in "/" finds no handler
\* through a pattern that ends in "/".
C30_TrailingSlashIsLiteral ==
  (served.done /\ served.found) =>
    /\ HasSlashSuffix(req.Path)
         => /\ MatchingRoute(TRUE)
            /\ \A k \in DOMAIN req.Params.kv : req.Params.kv[k] # <<>>
    /\ ~HasSlashSuffix(req.Path) => MatchingRoute(FALSE)

\* ---------------------------------------------------------------- C36
\* C36: after any sequence of AddRoute calls every trie node has at most
\* one child whose segment starts with ":".
C36_OneDynamicChildPerNode ==
  \A n \in DOMAIN mux.nodes :
    Cardinality({c \in mux.nodes[n].children : HasColonPrefix(c)}) <= 1

\* ---------------------------------------------------------------- C37
\* C37: on a mux whose routes are fixed, every lookup of the (path, method)
\* of the request served reaches the handler that request reached (or
\* misses as it did) and binds the parameters it bound.
C37_LookupDeterministic ==
  served.done =>
    \A o \in ServeHTTP(mux, NewResponseWriter, NewRequest(req.Method, req.Path)) :
      /\ o.found = served.found
      /\ o.trace = served.trace
      /\ o.r.Params = req.Params

\* ---------------------------------------------------------------- C38
\* the registered patterns that match the request for its method
MatchingPatterns ==
  {p \in RegisteredPatterns : IsRegistered(p, req.Method) /\ Matches(p, req.Path)}
\* at one of its parameter segments the pattern has a literal sibling named
\* like the request's segment there
HasLiteralSibling(p) ==
  \E i \in 1..Len(Segments(p)) :
    /\ HasColonPrefix(Segments(p)[i])
    /\ ~HasColonPrefix(Segments(req.Path)[i])
    /\ Segments(req.Path)[i] \in mux.nodes[SubSeq(Segments(p), 1, i - 1)].children

\* C38: lookup takes the literal child whenever one is named like the
\* current segment and never goes back to a dynamic sibling: the handler of
\* a matching pattern with such a literal sibling is not invoked, and when
\* every matching pattern has one the request is a route miss.
C38_NoBacktracking ==
  served.done =>
    /\ \A p \in MatchingPatterns :
         HasLiteralSibling(p) => Route(p, req.Method).h \notin Range(served.trace)
    /\ (MatchingPatterns # {} /\ \A p \in MatchingPatterns : HasLiteralSibling(p))
         => ~served.found /\ Invoked = {}

\* /a/b and /a/:x/b are registered for GET, and GET /a/b/b was a route
\* miss although /a/:x/b matches it.
C38_Witness ==
  /\ served.done /\ ~served.found
  /\ req.Path = <<"/", "a", "/", "b", "/", "b">> /\ req.Method = GET
  /\ IsRegistered(<<"/", "a", "/", "b">>, GET)
  /\ IsRegistered(<<"/", "a", "/", ":", "x", "/", "b">>, GET)
  /\ MatchingPatterns = {<<"/", "a", "/", ":", "x", "/", "b">>}
  /\ served.w.StatusCode = 404

\* ---------------------------------------------------------------- C40
\* C40: when the request hits no route (the user error handler or the
\* built-in 404 answers it, or a static file is served) no middleware
\* registered with Use is invoked.
C40_MiddlewareOnlyOnHit ==
  (served.done /\ ~served.found) =>
    /\ \A m \in Range(mux.middleware) : m \notin Range(served.trace)
    /\ "X-Middleware" \notin DOMAIN served.w.Headers

\* Two middlewares are installed; a file was served, or a route miss was
\* answered by the user error handler while a route is registered.
C40_Witness ==
  /\ served.done /\ ~served.found
  /\ Len(mux.middleware) = 2
  /\ Len(registered) >= 1
  /\ \/ served.static /\ req.Path = <<"/", "a", "/">>
     \/ ~served.static /\ served.trace = <<"errorHandler(404)">>

\* ---------------------------------------------------------------- C31
\* C31: Cookie.String is Name=Value followed, in this order, by "; Path=",
\* "; Domain=", "; Expires=", "; Max-Age=", "; Secure" and "; HttpOnly", each
\* present exactly when its field is set: a non-empty string, a non-zero
\* time, a non-zero MaxAge, a true flag.
C31_CookieStringAttributes ==
  jar.pc # "new" =>
    LET c == jar.cookie
    IN  Str(jar.text)
          = Str(c.Name) \o "=" \o Str(c.Value)
              \o (IF c.Path # <<>> THEN "; Path=" \o Str(c.Path) ELSE "")
              \o (IF c.Domain # <<>> THEN "; Domain=" \o Str(c.Domain) ELSE "")
              \o (IF c.Expires # ZeroTime
                  THEN "; Expires=Fri, 02 Jan 2026 03:04:05 UTC" ELSE "")
              \o (IF c.MaxAge > 0 THEN "; Max-Age=" \o Itoa(c.MaxAge)
                  ELSE IF c.MaxAge < 0 THEN "; Max-Age=-" \o Itoa(0 - c.MaxAge)
                  ELSE "")
              \o (IF c.Secure THEN "; Secure" ELSE "")
              \o (IF c.HttpOnly THEN "; HttpOnly" ELSE "")

\* ---------------------------------------------------------------- C32
\* C32: the text Cookie.String gives for a cookie, parsed as the value of
\* a Cookie header, yields the Name and the Value of the cookie (as the
\* first pair, before the pairs read from the attributes).
C32_CookieRoundTrip ==
  jar.pc = "parsed" =>
    /\ Len(jar.parsed) >= 1
    /\ jar.parsed[1] = [Name |-> jar.cookie.Name, Value |-> jar.cookie.Value]

\* ---------------------------------------------------------------- C33
\* C33: once ln.Accept has returned a fatal error (the listener is closed)
\* and the loop has handled it, listenAndServe has left its loop and
\* returned, so that Run returns.
C33_FatalAcceptErrorEndsLoop ==
  srv.listener = "failed" => srv.loop = "returned"

\* ------------------------------------------- claims on the mux under concurrency
\* The trie a lookup that starts now walks: the nodes reachable from the
\* root, named by the segments on the way to them.
RECURSIVE NodeAt(_, _, _)
NodeAt(h, n, path) ==
  IF path = <<>> THEN n ELSE NodeAt(h, h[n].children[Head(path)], Tail(path))
RECURSIVE PathsFrom(_, _, _)
PathsFrom(h, n, prefix) ==
  {prefix} \cup UNION {PathsFrom(h, h[n].children[k], Append(prefix, k)) :
                         k \in DOMAIN h[n].children}
TrieOf(h) ==
  [p \in PathsFrom(h, 1, <<>>) |-> [h[NodeAt(h, 1, p)] EXCEPT !.children = DOMAIN @]]
\* What traverseTree gives for (path, method) on the trie as it is now
Resolves(path, method) == traverseTree(TrieOf(heap), path, method, Root, NoParams)
MethodsOf(t) == {t.methods[k] : k \in 1..Len(t.methods)}
\* The methods of the route of AddRoute call t that a lookup finds now
Visible(t) ==
  {m \in MethodsOf(t) :
     \E o \in Resolves(t.path, m) : o.found /\ o.handler = t.handler}

\* ---------------------------------------------------------------- C34
\* C34: while AddRoute runs next to lookups, no lookup reads a handler map
\* that another goroutine is writing, and at every moment the route of an
\* AddRoute call is visible to lookups under all of its methods or under
\* none.
C34_AddRouteSafeWithLookups ==
  /\ \A i \in DOMAIN tasks : tasks[i].kind = "ServeHTTP" => ~tasks[i].raced
  /\ \A i \in DOMAIN tasks :
       tasks[i].kind = "AddRoute" => Visible(tasks[i]) \in {{}, MethodsOf(tasks[i])}

\* ---------------------------------------------------------------- C35
\* The call that runs at the same time as call i
Peer(i) == IF i % 2 = 1 THEN i + 1 ELSE i - 1
ServeHTTPSteps ==
  \E i \in DOMAIN tasks : tasks[i].kind = "ServeHTTP" /\ tasks'[i] # tasks[i]

\* C35: a ServeHTTP call that runs next to another ServeHTTP call, with no
\* AddRoute in progress, ends with what traverseTree gives for its own path
\* and method on the trie: that handler, with exactly the bindings of its
\* own path in its params, or not found; and no step of a ServeHTTP call
\* changes a node.
C35_ConcurrentLookupsIndependent ==
  /\ [](\A i \in DOMAIN tasks :
          (/\ tasks[i].kind = "ServeHTTP"
           /\ tasks[Peer(i)].kind = "ServeHTTP"
           /\ tasks[i].pc = "returned")
          => \E o \in Resolves(tasks[i].path, tasks[i].methods[1]) :
               /\ tasks[i].found = o.found
               /\ tasks[i].handler = o.handler
               /\ o.found => tasks[i].params = o.params)
  /\ [][ServeHTTPSteps => heap' = heap]_vars

\* Both routes were registered, and two concurrent calls have returned:
\* GET /a/c dispatched to h2 with x = c in its own params, GET /a/b to h1
\* with no binding.
C35_Witness ==
  /\ Len(tasks) = 4
  /\ tasks[3].pc = "returned" /\ tasks[4].pc = "returned"
  /\ tasks[3].found /\ tasks[3].handler = <<"h2">>
  /\ tasks[3].params = [k \in {<<"x">>} |-> <<"c">>]
  /\ tasks[4].found /\ tasks[4].handler = <<"h1">>
  /\ tasks[4].params = NoParams

\* ---------------------------------------------------------------- C39
\* C39: when two concurrent AddRoute calls have both returned, each of the
\* two routes resolves to its handler under each of its methods.
C39_NoLostRegistration ==
  (/\ tasks[2].kind = "AddRoute"
   /\ tasks[1].pc = "returned" /\ tasks[2].pc = "returned")
  => \A i \in {1, 2} : Visible(tasks[i]) = MethodsOf(tasks[i])

====
